---- MODULE Spec2Model ----
(***************************************************************************)
(* A model of the DNS-to-DNS-over-HTTPS forwarding proxy: the response     *)
(* cache (src/src/cache.rs), the upstream forwarder (src/src/upstream.rs)  *)
(* and the local TCP listener (src/src/tcp.rs).                            *)
(***************************************************************************)
EXTENDS Integers, Sequences, FiniteSets, TLC

(***************************************************************************)
(* Bounds of the model.                                                    *)
(***************************************************************************)
\* Number of distinct domain names that occur in queries.
NumNames == 2
\* Transaction ids used by requests are 1..MaxId.
MaxId == 2
\* The capacity of the LRU cache.  The code's capacity is 1024
\* (cache.rs:30); the model scales it down so that a full cache is reached.
CacheCapacity == 2

\* Option::None, and the absent value of a history field.
None == [none |-> TRUE]

Names == 1 .. NumNames
RequestIds == 1 .. MaxId
\* The id of the messages handed to put directly: an id no request uses.
StoredId == MaxId + 1

\* The instants (seconds on the monotonic clock) at which operations can
\* happen, in increasing order.
ClockPoints == <<0, 9, 10>>

(***************************************************************************)
(* Messages: trust_dns_proto's Message, reduced to the fields the program  *)
(* reads: the transaction id, the queries and the answers.                 *)
(***************************************************************************)
Query(name, query_type) ==
    [name |-> name, query_type |-> query_type, query_class |-> "IN"]

Record(ttl) == [ttl |-> ttl, rdata |-> "1.1.1.1"]

Message(id, queries, answers) ==
    [id |-> id, queries |-> queries, answers |-> answers]

\* The questions of the model: an A question per name, and an AAAA question
\* for the first name (same name, different type).
Queries == {Query(n, "A") : n \in Names} \cup {Query(1, "AAAA")}

TwoQueries == <<Query(1, "A"), Query(2, "A")>>

QuerySeqs == {<<>>} \cup {<<q>> : q \in Queries}

AnswerSeqs ==
    {<<>>, <<Record(0)>>, <<Record(10)>>, <<Record(1000), Record(10)>>}

\* Message::set_id
set_id(message, id) == [message EXCEPT !.id = id]

(***************************************************************************)
(* The wire codec (Message::to_vec, Message::from_vec), a library the      *)
(* program is given.  The model's wire format: the id in two bytes, the    *)
(* number of queries, the number of answers, two bytes per query (name,    *)
(* type), two bytes per answer (the TTL, big-endian).  Decoding fails on   *)
(* input that is too short or names an unknown type; bytes after the       *)
(* message are ignored.                                                    *)
(***************************************************************************)
TypeCode(query_type) == IF query_type = "A" THEN 1 ELSE 28

RECURSIVE EncodeQueries(_)
EncodeQueries(queries) ==
    IF queries = <<>> THEN <<>>
    ELSE <<Head(queries).name, TypeCode(Head(queries).query_type)>>
         \o EncodeQueries(Tail(queries))

RECURSIVE EncodeAnswers(_)
EncodeAnswers(answers) ==
    IF answers = <<>> THEN <<>>
    ELSE <<Head(answers).ttl \div 256, Head(answers).ttl % 256>>
         \o EncodeAnswers(Tail(answers))

\* Message::to_vec, when it succeeds.
to_vec(message) ==
    <<message.id \div 256, message.id % 256,
      Len(message.queries), Len(message.answers)>>
    \o EncodeQueries(message.queries) \o EncodeAnswers(message.answers)

DecodeError == [decode_error |-> TRUE]

\* Message::from_vec
from_vec(bytes) ==
    IF Len(bytes) < 4 THEN DecodeError
    ELSE LET nq == bytes[3]
             na == bytes[4]
         IN  IF Len(bytes) < 4 + 2 * nq + 2 * na THEN DecodeError
             ELSE IF \E i \in 1 .. nq : bytes[4 + 2 * i] \notin {1, 28}
             THEN DecodeError
             ELSE Message(
                    bytes[1] * 256 + bytes[2],
                    [i \in 1 .. nq |->
                        Query(bytes[3 + 2 * i],
                              IF bytes[4 + 2 * i] = 1 THEN "A" ELSE "AAAA")],
                    [i \in 1 .. na |->
                        Record(bytes[3 + 2 * nq + 2 * i] * 256
                               + bytes[4 + 2 * nq + 2 * i])])

(***************************************************************************)
(* The state.                                                              *)
(***************************************************************************)
VARIABLES
    lru_cache,   \* Cache.lru_cache: the entries, most recently used first
    clock,       \* index into ClockPoints: the monotonic clock
    proc,        \* per task: the state of its call of HttpsClient::process
    conn,        \* per task: the TCP connection it serves (see NoConn)
    accept_warned, \* whether accept() has failed and the loop gone on
    usize_bytes, \* the width of usize on the target, in bytes
    udp,         \* per task: the datagram it handles (see NoDatagram)
    udp_loop,    \* the receive loop of the UDP listener (see UdpLoop)
    main,        \* the entry point and HttpsClient::new (see Starting)
    lock,        \* the holder of the mutex of the cache (see Holder), or None
    lastOp,      \* history: the last direct cache call (see NoOp)
    use_order    \* history: the cached keys, most recently used first, where
                 \* a use is a put that stores or a get that returns a message

cacheVars == <<lru_cache, clock, lastOp, use_order>>
tcpVars == <<conn, accept_warned, usize_bytes>>
udpVars == <<udp, udp_loop>>
vars == <<lru_cache, clock, proc, conn, accept_warned, usize_bytes,
          udp, udp_loop, main, lock, lastOp, use_order>>

\* The concurrent tasks (one per connection or datagram).
Tasks == {1, 2}

Now == ClockPoints[clock]

(***************************************************************************)
(* lru::LruCache, as the cache uses it.  The cache is a sequence of        *)
(* [key, value] pairs, most recently used first.                           *)
(***************************************************************************)
RECURSIVE SeqWithout(_, _)
SeqWithout(s, key) ==
    IF s = <<>> THEN <<>>
    ELSE IF Head(s).key = key THEN SeqWithout(Tail(s), key)
    ELSE <<Head(s)>> \o SeqWithout(Tail(s), key)

LruKeys(cache) == {cache[i].key : i \in 1 .. Len(cache)}

LruPeek(cache, key) ==
    IF key \in LruKeys(cache)
    THEN (CHOOSE i \in 1 .. Len(cache) : cache[i].key = key)
    ELSE 0

\* LruCache::put: replaces the value of an existing key, or inserts the key,
\* dropping the least recently used entry of a full cache; the key becomes
\* the most recently used.
LruPutEvictMru(cache, key, value) ==
    IF key \in LruKeys(cache)
    THEN <<[key |-> key, value |-> value]>> \o SeqWithout(cache, key)
    ELSE IF Len(cache) >= CacheCapacity
    THEN <<[key |-> key, value |-> value]>> \o Tail(cache)
    ELSE <<[key |-> key, value |-> value]>> \o cache

LruPut(cache, key, value) ==
    IF key \in LruKeys(cache)
    THEN <<[key |-> key, value |-> value]>> \o SeqWithout(cache, key)
    ELSE IF Len(cache) >= CacheCapacity
    THEN <<[key |-> key, value |-> value]>> \o SubSeq(cache, 1, Len(cache) - 1)
    ELSE <<[key |-> key, value |-> value]>> \o cache

\* LruCache::get: the key, if present, becomes the most recently used.
LruGet(cache, key) ==
    IF key \in LruKeys(cache)
    THEN <<cache[LruPeek(cache, key)]>> \o SeqWithout(cache, key)
    ELSE cache

\* LruCache::pop
LruPop(cache, key) == SeqWithout(cache, key)

(***************************************************************************)
(* Cache::put and Cache::get as functions of the cache, the message and    *)
(* the instant of the call.                                                *)
(***************************************************************************)
\* The key of a message: its first query (cache.rs:39-40, 65-66).
KeyPerCaller(message) == [query |-> message.queries[1], id |-> message.id]

Key(message) == [query |-> message.queries[1]]

\* answers().iter().min_by(ttl): the smallest TTL of the answers.
MaxTtl(answers) ==
    CHOOSE t \in {answers[i].ttl : i \in 1 .. Len(answers)} :
        \A i \in 1 .. Len(answers) : answers[i].ttl <= t

min_record_ttl(answers) ==
    CHOOSE t \in {answers[i].ttl : i \in 1 .. Len(answers)} :
        \A i \in 1 .. Len(answers) : t <= answers[i].ttl

\* instant.elapsed() < ttl
Fresh(instant, ttl, now) == now - instant < ttl

\* Cache::put: the cache after put(message) at instant now.
PutIgnoresGuards(cache, message, now) ==
    IF message.queries = <<>> THEN <<>>
    ELSE IF message.answers = <<>> THEN LruPop(cache, Key(message))
    ELSE LruPut(cache, Key(message),
                [message |-> message, instant |-> now,
                 ttl |-> min_record_ttl(message.answers)])

PutState(cache, message, now) ==
    IF message.queries = <<>> THEN cache
    ELSE IF message.answers = <<>> THEN cache
    ELSE LruPut(cache, Key(message),
                [message |-> message, instant |-> now,
                 ttl |-> min_record_ttl(message.answers)])

\* Cache::get: the result, None or a message.
GetResultKeepsId(cache, message, now) ==
    IF Len(cache) = 0 \/ message.queries = <<>> THEN None
    ELSE IF Key(message) \notin LruKeys(cache) THEN None
    ELSE LET value == cache[LruPeek(cache, Key(message))].value
         IN  IF Fresh(value.instant, value.ttl, now)
             THEN value.message
             ELSE None

GetResult(cache, message, now) ==
    IF Len(cache) = 0 \/ message.queries = <<>> THEN None
    ELSE IF Key(message) \notin LruKeys(cache) THEN None
    ELSE LET value == cache[LruPeek(cache, Key(message))].value
         IN  IF Fresh(value.instant, value.ttl, now)
             THEN set_id(value.message, message.id)
             ELSE None

\* Cache::get: the cache after get(message) at instant now.
GetStateStoresId(cache, message, now) ==
    IF Len(cache) = 0 \/ message.queries = <<>> THEN cache
    ELSE IF Key(message) \notin LruKeys(cache) THEN cache
    ELSE LET value == cache[LruPeek(cache, Key(message))].value
         IN  IF Fresh(value.instant, value.ttl, now)
             THEN <<[key |-> Key(message),
                     value |-> [value EXCEPT !.message.id = message.id]]>>
                  \o SeqWithout(cache, Key(message))
             ELSE LruPop(LruGet(cache, Key(message)), Key(message))

GetStateKeepsExpired(cache, message, now) ==
    IF Len(cache) = 0 \/ message.queries = <<>> THEN cache
    ELSE LruGet(cache, Key(message))

GetState(cache, message, now) ==
    IF Len(cache) = 0 \/ message.queries = <<>> THEN cache
    ELSE IF Key(message) \notin LruKeys(cache) THEN cache
    ELSE LET value == cache[LruPeek(cache, Key(message))].value
         IN  IF Fresh(value.instant, value.ttl, now)
             THEN LruGet(cache, Key(message))
             ELSE LruPop(LruGet(cache, Key(message)), Key(message))

(***************************************************************************)
(* HttpsClient::process (upstream.rs:58-73).  A call runs in three steps,  *)
(* split at the points where it awaits: the lookup, the encoding and the   *)
(* start of the POST; the end of send(); the end of bytes(), the decoding, *)
(* the put and the return.  proc[t] is the call of task t:                 *)
(*   pc      "idle", "send" (awaiting send), "body" (awaiting bytes),      *)
(*           "ok" or "err" (returned, result not yet taken by the caller)  *)
(*   request the request message                                           *)
(*   posted  the body of the POST, once sent                               *)
(*   result  the returned message, or the error                            *)
(*   posts   the number of POSTs this call has sent                        *)
(*   stage   where the call failed                                         *)
(***************************************************************************)
Idle == [pc |-> "idle", request |-> None, posted |-> <<>>, result |-> None,
         posts |-> 0, stage |-> "none"]

InitProc == proc = [t \in Tasks |-> Idle]

\* .map_err(|_| Resolve): the error of a failure at stage.
ErrorByStage(stage) == [err |-> stage]

map_err(stage) == [err |-> "Resolve"]

\* What the upstream may answer to a POST of body: an undecodable body, or
\* the encoding of a response with the id of the request, carrying the
\* request's queries or another question, and some answers.
UpstreamBodies(body) ==
    LET request == from_vec(body)
    IN  {<<0, 0>>} \cup
        {to_vec(Message(request.id, qs, as)) :
            qs \in {request.queries, <<Query(2, "A")>>},
            as \in {<<>>, <<Record(0)>>, <<Record(10)>>}}

\* upstream.rs:59-67: the lookup; on a miss the request is encoded and the
\* POST sent.  encoded is false when to_vec fails.
ProcessStartCoalesces(t, request, encoded) ==
    LET hit == GetResult(lru_cache, request, Now)
        inflight == {u \in Tasks \ {t} :
                        /\ proc[u].pc \in {"send", "body"}
                        /\ proc[u].request.queries # <<>>
                        /\ request.queries # <<>>
                        /\ Key(proc[u].request) = Key(request)}
    IN  /\ proc[t].pc = "idle"
        /\ lru_cache' = GetState(lru_cache, request, Now)
        /\ proc' = [proc EXCEPT ![t] =
              IF hit # None
              THEN [Idle EXCEPT !.pc = "ok", !.request = request,
                                !.result = hit]
              ELSE IF ~encoded
              THEN [Idle EXCEPT !.pc = "err", !.request = request,
                                !.result = map_err("encode"),
                                !.stage = "encode"]
              ELSE IF inflight # {}
              THEN [Idle EXCEPT !.pc = "send", !.request = request,
                                !.posted =
                                    proc[CHOOSE u \in inflight : TRUE].posted]
              ELSE [Idle EXCEPT !.pc = "send", !.request = request,
                                !.posted = to_vec(request),
                                !.posts = 1]]

process_start(t, request, encoded) ==
    LET hit == GetResult(lru_cache, request, Now)
    IN  /\ proc[t].pc = "idle"
        /\ lru_cache' = GetState(lru_cache, request, Now)
        /\ proc' = [proc EXCEPT ![t] =
              IF hit # None
              THEN [Idle EXCEPT !.pc = "ok", !.request = request,
                                !.result = hit]
              ELSE IF ~encoded
              THEN [Idle EXCEPT !.pc = "err", !.request = request,
                                !.result = map_err("encode"),
                                !.stage = "encode"]
              ELSE [Idle EXCEPT !.pc = "send", !.request = request,
                                !.posted = to_vec(request),
                                !.posts = 1]]

\* upstream.rs:67: request.send().await ends.
process_sent(t, sent) ==
    /\ proc[t].pc = "send"
    /\ proc' = [proc EXCEPT ![t] =
          IF sent
          THEN [@ EXCEPT !.pc = "body"]
          ELSE [@ EXCEPT !.pc = "err", !.result = map_err("send"),
                         !.stage = "send"]]
    /\ UNCHANGED lru_cache

\* The put of the decoded response (upstream.rs:70).
NoPut(cache, message, now) == cache

process_put(cache, message, now) == PutState(cache, message, now)

\* upstream.rs:68-72: response.bytes().await ends; the body is decoded, the
\* message offered to the cache and returned.  received is false when
\* bytes() fails, and body is what the upstream answered (any bytes).
ProcessBodyKeysByRequest(t, received, body) ==
    /\ proc[t].pc = "body"
    /\ IF ~received
       THEN /\ proc' = [proc EXCEPT ![t] =
                  [@ EXCEPT !.pc = "err", !.result = map_err("body"),
                            !.stage = "body"]]
            /\ UNCHANGED lru_cache
       ELSE IF from_vec(body) = DecodeError
       THEN /\ proc' = [proc EXCEPT ![t] =
                  [@ EXCEPT !.pc = "err", !.result = map_err("decode"),
                            !.stage = "decode"]]
            /\ UNCHANGED lru_cache
       ELSE /\ lru_cache' =
                  IF proc[t].request.queries = <<>>
                     \/ from_vec(body).answers = <<>>
                  THEN process_put(lru_cache, from_vec(body), Now)
                  ELSE LruPut(lru_cache, Key(proc[t].request),
                              [message |-> from_vec(body), instant |-> Now,
                               ttl |-> min_record_ttl(from_vec(body).answers)])
            /\ proc' = [proc EXCEPT ![t] =
                  [@ EXCEPT !.pc = "ok", !.result = from_vec(body)]]

process_body(t, received, body) ==
    /\ proc[t].pc = "body"
    /\ IF ~received
       THEN /\ proc' = [proc EXCEPT ![t] =
                  [@ EXCEPT !.pc = "err", !.result = map_err("body"),
                            !.stage = "body"]]
            /\ UNCHANGED lru_cache
       ELSE IF from_vec(body) = DecodeError
       THEN /\ proc' = [proc EXCEPT ![t] =
                  [@ EXCEPT !.pc = "err", !.result = map_err("decode"),
                            !.stage = "decode"]]
            /\ UNCHANGED lru_cache
       ELSE /\ lru_cache' = process_put(lru_cache, from_vec(body), Now)
            /\ proc' = [proc EXCEPT ![t] =
                  [@ EXCEPT !.pc = "ok", !.result = from_vec(body)]]

(***************************************************************************)
(* LocalTcpListener::listen (tcp.rs:44-134).  conn[c] is the connection    *)
(* that task c serves:                                                     *)
(*   pc       "unaccepted", then the await the task is at: "read_len",     *)
(*            "read_body", "process", "write_len", "write_body", "flush",  *)
(*            or "done" (the task has returned)                            *)
(*   to_send  the segments the client has still to send                    *)
(*   inbuf    the bytes that have arrived and are not yet read             *)
(*   closed   the client has closed its side                               *)
(*   length   the length read from the prefix                              *)
(*   raw      raw_response_message                                         *)
(*   out      the bytes written to the client                              *)
(*   warns    the number of warn! events of the task                       *)
(*   end      why the task returned                                        *)
(* and, as history:                                                        *)
(*   served   the encoded responses written and flushed without an error   *)
(*   calls    the number of calls of process                               *)
(*   reqs     the request messages passed to process, in order             *)
(*   failed   a write or flush of the current response has failed          *)
(*   wfail    a write or flush has failed on this connection               *)
(***************************************************************************)
NoConn == [pc |-> "unaccepted", to_send |-> <<>>, inbuf |-> <<>>,
           closed |-> FALSE, length |-> 0, raw |-> <<>>, out |-> <<>>,
           warns |-> 0, end |-> "none", served |-> <<>>, calls |-> 0,
           reqs |-> <<>>, failed |-> FALSE, wfail |-> FALSE]

InitTcp ==
    /\ conn = [c \in Tasks |-> NoConn]
    /\ accept_warned = FALSE

\* n.to_be_bytes() of an integer n of width bytes.
RECURSIVE to_be_bytes(_, _)
to_be_bytes(n, width) ==
    IF width = 0 THEN <<>>
    ELSE Append(to_be_bytes(n \div 256, width - 1), n % 256)

\* u16::from_be_bytes
from_be_bytes(buffer) == buffer[1] * 256 + buffer[2]

\* The bytes of the response's length prefix (tcp.rs:112):
\* raw_response_message.len().to_be_bytes(), len() being a usize.
LengthPrefix(raw) == to_be_bytes(Len(raw), usize_bytes)

\* The first n elements of s.
Take(s, n) == SubSeq(s, 1, IF n < Len(s) THEN n ELSE Len(s))
Drop(s, n) == SubSeq(s, n + 1, Len(s))

\* What the steps of a connection's task leave alone.
others == <<clock, accept_warned, usize_bytes, udpVars, main, lock, lastOp,
           use_order>>

\* A task returns.
Ended(c, why, warned) ==
    [conn[c] EXCEPT !.pc = "done", !.end = why,
                    !.warns = @ + (IF warned THEN 1 ELSE 0)]

\* tcp.rs:47-53: accept() succeeds and the connection's task is spawned; the
\* client is about to send stream.
Accept(c, stream) ==
    /\ conn[c].pc = "unaccepted"
    /\ conn' = [conn EXCEPT ![c] =
          [NoConn EXCEPT !.pc = "read_len", !.to_send = stream]]
    /\ UNCHANGED <<lru_cache, clock, proc, accept_warned, usize_bytes,
                   udpVars, main, lock, lastOp, use_order>>

\* tcp.rs:49-52: accept() fails; the loop warns and goes on.
AcceptError ==
    /\ \E c \in Tasks : conn[c].pc = "unaccepted"
    /\ accept_warned' = TRUE
    /\ UNCHANGED <<lru_cache, clock, proc, conn, usize_bytes, udpVars, main,
                   lock, lastOp, use_order>>

\* The next segment of the client's stream arrives.
Deliver(c) ==
    /\ conn[c].pc \notin {"unaccepted"}
    /\ conn[c].to_send # <<>>
    /\ conn' = [conn EXCEPT ![c] =
          [@ EXCEPT !.inbuf = @ \o Head(conn[c].to_send),
                    !.to_send = Tail(@)]]
    /\ UNCHANGED <<lru_cache, clock, proc, accept_warned, usize_bytes,
                   udpVars, main, lock, lastOp, use_order>>

\* The client, having sent everything, closes its side.
ClientClose(c) ==
    /\ conn[c].pc \notin {"unaccepted"}
    /\ conn[c].to_send = <<>>
    /\ ~conn[c].closed
    /\ conn' = [conn EXCEPT ![c] = [@ EXCEPT !.closed = TRUE]]
    /\ UNCHANGED <<lru_cache, clock, proc, accept_warned, usize_bytes,
                   udpVars, main, lock, lastOp, use_order>>

\* tcp.rs:56-65: tcp_stream.read(&mut length_buffer) ends.  read returns the
\* bytes that have arrived, at most two, or none at the end of the stream;
\* the rest of the buffer stays zero.  A length of 0 ends the task.
ReadLenIgnoresZero(c, ok) ==
    /\ conn[c].pc = "read_len"
    /\ IF ~ok
       THEN conn' = [conn EXCEPT ![c] = Ended(c, "read_len_error", TRUE)]
       ELSE /\ conn[c].inbuf # <<>> \/ conn[c].closed
            /\ LET n == IF Len(conn[c].inbuf) < 2 THEN Len(conn[c].inbuf)
                        ELSE 2
                   length_buffer == Take(conn[c].inbuf, n)
                                    \o [i \in 1 .. 2 - n |-> 0]
                   length == from_be_bytes(length_buffer)
               IN  conn' = [conn EXCEPT ![c] =
                      [@ EXCEPT !.pc = "read_body",
                                !.inbuf = Drop(@, n),
                                !.length = length]]
    /\ UNCHANGED <<lru_cache, proc, others>>

ReadLen(c, ok) ==
    /\ conn[c].pc = "read_len"
    /\ IF ~ok
       THEN conn' = [conn EXCEPT ![c] = Ended(c, "read_len_error", TRUE)]
       ELSE /\ conn[c].inbuf # <<>> \/ conn[c].closed
            /\ LET n == IF Len(conn[c].inbuf) < 2 THEN Len(conn[c].inbuf)
                        ELSE 2
                   length_buffer == Take(conn[c].inbuf, n)
                                    \o [i \in 1 .. 2 - n |-> 0]
                   length == from_be_bytes(length_buffer)
               IN  conn' = [conn EXCEPT ![c] =
                      IF length = 0
                      THEN [Ended(c, "zero_length", FALSE) EXCEPT
                               !.inbuf = Drop(@, n), !.length = 0]
                      ELSE [@ EXCEPT !.pc = "read_body",
                                     !.inbuf = Drop(@, n),
                                     !.length = length]]
    /\ UNCHANGED <<lru_cache, proc, others>>

\* tcp.rs:67-96: tcp_stream.read_exact(&mut buffer) ends; the request is
\* decoded and process called, which runs up to its first await.
ReadBody(c, ok, encoded) ==
    /\ conn[c].pc = "read_body"
    /\ IF ~ok
       THEN /\ conn' = [conn EXCEPT ![c] = Ended(c, "read_body_error", TRUE)]
            /\ UNCHANGED <<lru_cache, proc>>
       ELSE IF Len(conn[c].inbuf) < conn[c].length
       THEN \* the stream ends before the body is complete
            /\ conn[c].closed /\ conn[c].to_send = <<>>
            /\ conn' = [conn EXCEPT ![c] = Ended(c, "read_body_error", TRUE)]
            /\ UNCHANGED <<lru_cache, proc>>
       ELSE LET buffer == Take(conn[c].inbuf, conn[c].length)
                request_message == from_vec(buffer)
            IN  IF request_message = DecodeError
                THEN /\ conn' = [conn EXCEPT ![c] =
                           [Ended(c, "parse_error", TRUE) EXCEPT
                               !.inbuf = Drop(@, conn[c].length)]]
                     /\ UNCHANGED <<lru_cache, proc>>
                ELSE /\ conn' = [conn EXCEPT ![c] =
                           [@ EXCEPT !.pc = "process",
                                     !.inbuf = Drop(@, conn[c].length),
                                     !.calls = @ + 1,
                                     !.reqs = Append(@, request_message)]]
                     /\ process_start(c, request_message, encoded)
    /\ UNCHANGED others

\* tcp.rs:91-109: process has returned; an error ends the task, a response
\* is encoded.  encoded is false when to_vec fails.
Processed(c, encoded) ==
    /\ conn[c].pc = "process"
    /\ proc[c].pc \in {"ok", "err"}
    /\ proc' = [proc EXCEPT ![c] = Idle]
    /\ conn' = [conn EXCEPT ![c] =
          IF proc[c].pc = "err" THEN Ended(c, "process_error", TRUE)
          ELSE IF ~encoded THEN Ended(c, "encode_error", TRUE)
          ELSE [@ EXCEPT !.pc = "write_len",
                         !.raw = to_vec(proc[c].result),
                         !.failed = FALSE]]
    /\ UNCHANGED <<lru_cache, others>>

\* tcp.rs:111-119: write_all of the length ends; an error is only warned of
\* (a write that fails is taken to have written nothing).
WriteLen(c, ok) ==
    /\ conn[c].pc = "write_len"
    /\ conn' = [conn EXCEPT ![c] =
          IF ok
          THEN [@ EXCEPT !.pc = "write_body",
                         !.out = @ \o LengthPrefix(conn[c].raw)]
          ELSE [@ EXCEPT !.pc = "write_body",
                         !.warns = @ + 1, !.failed = TRUE, !.wfail = TRUE]]
    /\ UNCHANGED <<lru_cache, proc, others>>

\* tcp.rs:121-123: write_all of the response ends.
WriteBody(c, ok) ==
    /\ conn[c].pc = "write_body"
    /\ conn' = [conn EXCEPT ![c] =
          IF ok
          THEN [@ EXCEPT !.pc = "flush", !.out = @ \o conn[c].raw]
          ELSE [@ EXCEPT !.pc = "flush",
                         !.warns = @ + 1, !.failed = TRUE, !.wfail = TRUE]]
    /\ UNCHANGED <<lru_cache, proc, others>>

\* tcp.rs:125-127: flush ends, and the loop goes back to reading a length.
FlushEndsTask(c, ok) ==
    /\ conn[c].pc = "flush"
    /\ conn' = [conn EXCEPT ![c] =
          IF ok
          THEN [@ EXCEPT !.pc = "done", !.end = "flushed",
                         !.raw = <<>>, !.length = 0,
                         !.served = IF conn[c].failed THEN @
                                    ELSE Append(@, conn[c].raw)]
          ELSE [@ EXCEPT !.pc = "done", !.end = "flushed",
                         !.raw = <<>>, !.length = 0,
                         !.warns = @ + 1, !.failed = TRUE, !.wfail = TRUE]]
    /\ UNCHANGED <<lru_cache, proc, others>>

Flush(c, ok) ==
    /\ conn[c].pc = "flush"
    /\ conn' = [conn EXCEPT ![c] =
          IF ok
          THEN [@ EXCEPT !.pc = "read_len", !.raw = <<>>, !.length = 0,
                         !.served = IF conn[c].failed THEN @
                                    ELSE Append(@, conn[c].raw)]
          ELSE [@ EXCEPT !.pc = "read_len", !.raw = <<>>, !.length = 0,
                         !.warns = @ + 1, !.failed = TRUE, !.wfail = TRUE]]
    /\ UNCHANGED <<lru_cache, proc, others>>

(***************************************************************************)
(* UdpListener::listen (local.rs:37-102).  udp_loop is the receive loop:   *)
(*   pc       the await the loop is at ("recv_from")                       *)
(*   warned   recv_from has failed and the loop gone on                    *)
(* and udp[t] is the datagram that task t handles:                         *)
(*   pc       "unreceived", "spawned" (the task has not run yet),          *)
(*            "process", "send_to", or "done" (the task has returned)      *)
(*   addr     the source address of the datagram                           *)
(*   buffer   the receive buffer, as the task got it                       *)
(*   request  request_message                                              *)
(*   response response_message, as process returned it                     *)
(*   raw      raw_response_message                                         *)
(*   sent     the datagrams the task has sent: [to, bytes]                 *)
(*   warns    the number of warn! events of the task                       *)
(*   end      why the task returned                                        *)
(* and, as history:                                                        *)
(*   during   the tasks that were awaiting the upstream when the datagram  *)
(*            was received                                                 *)
(***************************************************************************)
\* The size of the receive buffer (4096 in local.rs:39).
BufferLen == 8

NoDatagram == [pc |-> "unreceived", addr |-> None, buffer |-> <<>>,
               request |-> None, response |-> None, raw |-> <<>>,
               sent |-> <<>>, warns |-> 0, end |-> "none", during |-> {}]

UdpLoop == [pc |-> "recv_from", warned |-> FALSE]

InitUdp ==
    /\ udp = [t \in Tasks |-> NoDatagram]
    /\ udp_loop = UdpLoop

\* The buffer after recv_from: zeroed, then the datagram written at its
\* start, cut to the size of the buffer.
FillBuffer(datagram) ==
    [i \in 1 .. BufferLen |->
        IF i <= Len(datagram) THEN datagram[i] ELSE 0]

\* local.rs:51,99-101: where the loop is once the task is spawned.
AwaitsTask(t) == "join"

after_spawn(t) == "recv_from"

\* A task returns.
UdpEnded(t, why, warned) ==
    [udp[t] EXCEPT !.pc = "done", !.end = why,
                   !.warns = @ + (IF warned THEN 1 ELSE 0)]

\* local.rs:39-51: recv_from returns a datagram from addr, task t is spawned
\* with the buffer, and the loop goes round.
Recv(t, addr, datagram) ==
    /\ udp_loop.pc = "recv_from"
    /\ udp[t].pc = "unreceived"
    /\ udp' = [udp EXCEPT ![t] =
          [NoDatagram EXCEPT
              !.pc = "spawned", !.addr = addr,
              !.buffer = FillBuffer(datagram),
              !.during = {u \in Tasks : proc[u].pc \in {"send", "body"}}]]
    /\ udp_loop' = [udp_loop EXCEPT !.pc = after_spawn(t)]
    /\ UNCHANGED <<lru_cache, clock, proc, tcpVars, main, lock, lastOp,
                   use_order>>

\* local.rs:45-48: recv_from fails; the loop warns and goes round.
RecvError ==
    /\ udp_loop.pc = "recv_from"
    /\ udp_loop' = [udp_loop EXCEPT !.warned = TRUE]
    /\ UNCHANGED <<lru_cache, clock, proc, tcpVars, udp, main, lock, lastOp,
                   use_order>>

\* local.rs:53-71: the task starts: the buffer is decoded and process
\* called, which runs up to its first await.
UdpStart(t, encoded) ==
    /\ udp[t].pc = "spawned"
    /\ LET request_message == from_vec(udp[t].buffer)
       IN  IF request_message = DecodeError
           THEN /\ udp' = [udp EXCEPT ![t] = UdpEnded(t, "parse_error", TRUE)]
                /\ UNCHANGED <<lru_cache, proc>>
           ELSE /\ udp' = [udp EXCEPT ![t] =
                      [@ EXCEPT !.pc = "process",
                                !.request = request_message]]
                /\ process_start(t, request_message, encoded)
    /\ UNCHANGED <<clock, tcpVars, udp_loop, main, lock, lastOp, use_order>>

\* local.rs:71-89: process has returned; an error ends the task, a response
\* is encoded.  encoded is false when to_vec fails.
UdpProcessedRepliesToError(t, encoded) ==
    /\ udp[t].pc = "process"
    /\ proc[t].pc \in {"ok", "err"}
    /\ proc' = [proc EXCEPT ![t] = Idle]
    /\ udp' = [udp EXCEPT ![t] =
          IF proc[t].pc = "err"
          THEN [@ EXCEPT !.pc = "send_to", !.warns = @ + 1,
                         !.raw = to_vec(udp[t].request)]
          ELSE IF ~encoded
          THEN [UdpEnded(t, "encode_error", TRUE) EXCEPT
                   !.response = proc[t].result]
          ELSE [@ EXCEPT !.pc = "send_to",
                         !.response = proc[t].result,
                         !.raw = to_vec(proc[t].result)]]
    /\ UNCHANGED <<lru_cache, clock, tcpVars, udp_loop, main, lock, lastOp,
                   use_order>>

UdpProcessed(t, encoded) ==
    /\ udp[t].pc = "process"
    /\ proc[t].pc \in {"ok", "err"}
    /\ proc' = [proc EXCEPT ![t] = Idle]
    /\ udp' = [udp EXCEPT ![t] =
          IF proc[t].pc = "err" THEN UdpEnded(t, "process_error", TRUE)
          ELSE IF ~encoded
          THEN [UdpEnded(t, "encode_error", TRUE) EXCEPT
                   !.response = proc[t].result]
          ELSE [@ EXCEPT !.pc = "send_to",
                         !.response = proc[t].result,
                         !.raw = to_vec(proc[t].result)]]
    /\ UNCHANGED <<lru_cache, clock, tcpVars, udp_loop, main, lock, lastOp,
                   use_order>>

\* local.rs:91-98: send_to ends, and with it the task.
SendToOtherAddr(t, ok) ==
    /\ udp[t].pc = "send_to"
    /\ udp' = [udp EXCEPT ![t] =
          IF ok
          THEN [UdpEnded(t, "replied", FALSE) EXCEPT
                   !.sent = Append(@,
                       [to |-> IF \E u \in Tasks \ {t} :
                                     udp[u].pc # "unreceived"
                               THEN udp[CHOOSE u \in Tasks \ {t} :
                                           udp[u].pc # "unreceived"].addr
                               ELSE udp[t].addr,
                        bytes |-> udp[t].raw])]
          ELSE UdpEnded(t, "send_error", TRUE)]
    /\ UNCHANGED <<lru_cache, clock, proc, tcpVars, udp_loop, main, lock,
                   lastOp, use_order>>

SendTo(t, ok) ==
    /\ udp[t].pc = "send_to"
    /\ udp' = [udp EXCEPT ![t] =
          IF ok
          THEN [UdpEnded(t, "replied", FALSE) EXCEPT
                   !.sent = Append(@, [to |-> udp[t].addr,
                                       bytes |-> udp[t].raw])]
          ELSE UdpEnded(t, "send_error", TRUE)]
    /\ UNCHANGED <<lru_cache, clock, proc, tcpVars, udp_loop, main, lock,
                   lastOp, use_order>>

(***************************************************************************)
(* main (main.rs:20-80), HttpsClient::new (upstream.rs:26-54) and          *)
(* BootstrapClient::bootstrap (bootstrap.rs:50-101).  main is:             *)
(*   pc         "new" (HttpsClient::new is called), "boot_send" and        *)
(*              "boot_body" (the awaits of bootstrap), "udp_bind",         *)
(*              "tcp_bind", "serving" (the join! of the two listen         *)
(*              loops) or "exit"                                           *)
(*   host       the upstream address of the command line                   *)
(*   resolved   the address bootstrap returned                             *)
(*   built, udp_bound, tcp_bound                                           *)
(*              the HttpsClient and the listeners are constructed          *)
(*   exit       the exit code, once main has returned                      *)
(*   error      the error main logged                                      *)
(* and, as history:                                                        *)
(*   bootstraps the number of times HttpsClient::new has turned to the     *)
(*              BootstrapClient (upstream.rs:41-42)                        *)
(*   boot_posts the number of POSTs bootstrap has sent                     *)
(*   response   the response bootstrap decoded                             *)
(***************************************************************************)
IpHosts == {"1.1.1.1"}
NameHosts == {"dns.example", "doh.example", "resolver.example"}

\* host.parse::<IpAddr>().is_ok()
IsIpAddr(host) == host \in IpHosts

Starting(host) ==
    [pc |-> "new", host |-> host, resolved |-> None, built |-> FALSE,
     udp_bound |-> FALSE, tcp_bound |-> FALSE, exit |-> "none",
     error |-> None, bootstraps |-> 0, boot_posts |-> 0, response |-> None]

\* The program once it serves, started with a literal address.
Started ==
    [Starting("1.1.1.1") EXCEPT !.pc = "serving", !.built = TRUE,
                                !.udp_bound = TRUE, !.tcp_bound = TRUE]

\* The errors.
Bootstrap(host, text) == [err |-> "Bootstrap", host |-> host, text |-> text]
Build == [err |-> "Build"]
LocalError(transport) == [err |-> "Local", transport |-> transport]

\* An answer record of a bootstrap response: its type and its data (None
\* when the record carries none).
RData(kind, value) == [kind |-> kind, value |-> value]
BootRecord(record_type, data) == [record_type |-> record_type, data |-> data]

BootRecords ==
    {BootRecord("A", RData("A", "8.8.8.8")),
     BootRecord("A", RData("A", "8.8.4.4")),
     BootRecord("AAAA", RData("AAAA", "2001:4860:4860::8888")),
     BootRecord("CNAME", RData("CNAME", "dns.google")),
     BootRecord("TXT", RData("TXT", "v=1")),
     BootRecord("A", None),
     BootRecord("CNAME", None)}

SocketAddr(ip, port) == [ip |-> ip, port |-> port]

\* bootstrap.rs:79-101: the outcome of bootstrap for a decoded response.
BootstrapResultAnyRecord(host, response_message) ==
    LET answers == response_message.answers
        usable == {i \in 1 .. Len(answers) :
                      /\ answers[i].data # None
                      /\ answers[i].data.kind \in {"A", "AAAA"}}
    IN  IF answers = <<>>
        THEN Bootstrap(host, "the response doesn't contain the answer")
        ELSE IF usable = {} THEN Bootstrap(host, "unknown record type")
        ELSE SocketAddr(
                 answers[CHOOSE i \in usable : \A j \in usable : i <= j]
                     .data.value, 0)

bootstrap_result(host, response_message) ==
    IF response_message.answers = <<>>
    THEN Bootstrap(host, "the response doesn't contain the answer")
    ELSE LET record == response_message.answers[1]
             record_data == record.data
         IN  IF record_data = None
             THEN Bootstrap(host, "the response doesn't contain the answer")
             ELSE IF record_data.kind = "A"
             THEN SocketAddr(record_data.value, 0)
             ELSE IF record_data.kind = "AAAA"
             THEN SocketAddr(record_data.value, 0)
             ELSE Bootstrap(host, "unknown record type")

\* main.rs:44-47, 58-61, 72-75: the error is logged and main returns
\* ExitCode::FAILURE.
FailGoesOn(error) ==
    [main EXCEPT !.pc = "serving", !.error = error]

Fail(error) ==
    [main EXCEPT !.pc = "exit", !.exit = "FAILURE", !.error = error]

\* upstream.rs:26-45, bootstrap.rs:25-65: HttpsClient::new is called.  With
\* a literal address the client is built at once; otherwise bootstrap is
\* called and runs up to its send.  failure is what fails on the way:
\* "build" (a Client not built), "name" (the host is no domain name),
\* "encode" (to_vec), or "none".
NewClient(failure) ==
    /\ main.pc = "new"
    /\ main' =
          IF IsIpAddr(main.host)
          THEN IF failure = "build" THEN Fail(Build)
               ELSE [main EXCEPT !.pc = "udp_bind", !.built = TRUE]
          ELSE IF failure = "build"
          THEN [Fail(Build) EXCEPT !.bootstraps = 1]
          ELSE IF failure = "name"
          THEN [Fail(Bootstrap(main.host, "name")) EXCEPT !.bootstraps = 1]
          ELSE IF failure = "encode"
          THEN [Fail(Bootstrap(main.host, "encode")) EXCEPT !.bootstraps = 1]
          ELSE [main EXCEPT !.pc = "boot_send", !.bootstraps = @ + 1,
                            !.boot_posts = @ + 1]
    /\ UNCHANGED <<lru_cache, clock, proc, tcpVars, udpVars, lock, lastOp,
                   use_order>>

\* bootstrap.rs:66-69: send() ends.
BootSentRetries(ok) ==
    /\ main.pc = "boot_send"
    /\ main' = IF ok \/ main.boot_posts >= 2
               THEN [main EXCEPT !.pc = "boot_body"]
               ELSE [main EXCEPT !.boot_posts = @ + 1]
    /\ UNCHANGED <<lru_cache, clock, proc, tcpVars, udpVars, lock, lastOp,
                   use_order>>

BootSent(ok) ==
    /\ main.pc = "boot_send"
    /\ main' = IF ok THEN [main EXCEPT !.pc = "boot_body"]
               ELSE Fail(Bootstrap(main.host, "send"))
    /\ UNCHANGED <<lru_cache, clock, proc, tcpVars, udpVars, lock, lastOp,
                   use_order>>

\* bootstrap.rs:71-101, upstream.rs:42-54: bytes() ends; the response is
\* decoded (response is DecodeError when it does not decode), the address
\* chosen, and the client built with it.
BootBody(ok, response, build_ok) ==
    /\ main.pc = "boot_body"
    /\ main' =
          IF ~ok THEN Fail(Bootstrap(main.host, "body"))
          ELSE IF response = DecodeError
          THEN Fail(Bootstrap(main.host, "decode"))
          ELSE LET result == bootstrap_result(main.host, response)
               IN  IF "err" \in DOMAIN result
                   THEN [Fail(result) EXCEPT !.response = response]
                   ELSE IF ~build_ok
                   THEN [Fail(Build) EXCEPT !.response = response,
                                            !.resolved = result]
                   ELSE [main EXCEPT !.pc = "udp_bind", !.built = TRUE,
                                     !.response = response,
                                     !.resolved = result]
    /\ UNCHANGED <<lru_cache, clock, proc, tcpVars, udpVars, lock, lastOp,
                   use_order>>

\* main.rs:50-62, local.rs:15-35: UdpListener::new.
BindUdp(ok) ==
    /\ main.pc = "udp_bind"
    /\ main' = IF ok THEN [main EXCEPT !.pc = "tcp_bind", !.udp_bound = TRUE]
               ELSE Fail(LocalError("udp"))
    /\ UNCHANGED <<lru_cache, clock, proc, tcpVars, udpVars, lock, lastOp,
                   use_order>>

\* main.rs:64-78, tcp.rs:17-40: LocalTcpListener::new, then the join! of the
\* two listen loops.
BindTcp(ok) ==
    /\ main.pc = "tcp_bind"
    /\ main' = IF ok THEN [main EXCEPT !.pc = "serving", !.tcp_bound = TRUE]
               ELSE Fail(LocalError("tcp"))
    /\ UNCHANGED <<lru_cache, clock, proc, tcpVars, udpVars, lock, lastOp,
                   use_order>>

\* main.rs:78: the listen loops run.
Listening == main.pc = "serving"

(***************************************************************************)
(* The cache on its own: put and get calls with arbitrary messages, and    *)
(* the clock advancing.                                                    *)
(***************************************************************************)
PutMessages ==
    {Message(StoredId, <<>>, as) : as \in {<<>>, <<Record(10)>>}}
        \cup {Message(StoredId, <<q>>, <<>>) : q \in Queries}
        \cup {Message(StoredId, <<Query(1, "A")>>, as) : as \in AnswerSeqs}
        \cup {Message(StoredId, <<q>>, <<Record(10)>>) : q \in Queries}
        \cup {Message(StoredId, TwoQueries, <<Record(10)>>)}

GetMessages ==
    {Message(id, qs, <<>>) : id \in RequestIds, qs \in QuerySeqs \cup {TwoQueries}}

\* The entries of cache whose key is not in after.
Dropped(cache, after) ==
    {cache[i] : i \in {j \in 1 .. Len(cache) : cache[j].key \notin LruKeys(after)}}

\* The history of the last call: op, its argument, what it returned, the
\* instant of the call, the entries it removed from the cache, and prev_hit:
\* the id of the call just before it when that was a get of the same
\* question that returned a message (0 otherwise).
NoOp == [op |-> "none", message |-> None, result |-> None, at |-> 0,
         dropped |-> {}, prev_hit |-> 0]

\* The order of use after a use of key: key first, then the keys of order
\* that are still cached.
Touch(order, key, cached) ==
    LET rest == SelectSeq(order, LAMBDA k : k # key /\ k \in cached)
    IN  IF key \in cached THEN <<key>> \o rest ELSE rest

\* Cache::new, and the histories empty.
InitCache ==
    /\ lru_cache = <<>>
    /\ clock = 1
    /\ lastOp = NoOp
    /\ use_order = <<>>

put(message) ==
    /\ lru_cache' = PutState(lru_cache, message, Now)
    /\ lastOp' = [op |-> "put", message |-> message, result |-> None,
                  at |-> Now,
                  dropped |-> Dropped(lru_cache, lru_cache'),
                  prev_hit |-> 0]
    /\ use_order' =
          IF message.queries # <<>> /\ message.answers # <<>>
          THEN Touch(use_order, Key(message), LruKeys(lru_cache'))
          ELSE SelectSeq(use_order, LAMBDA k : k \in LruKeys(lru_cache'))
    /\ UNCHANGED <<clock, proc, tcpVars, udpVars, main, lock>>

get(message) ==
    /\ lru_cache' = GetState(lru_cache, message, Now)
    /\ lastOp' = [op |-> "get", message |-> message,
                  result |-> GetResult(lru_cache, message, Now),
                  at |-> Now,
                  dropped |-> Dropped(lru_cache, lru_cache'),
                  prev_hit |->
                      IF /\ lastOp.op = "get"
                         /\ lastOp.result # None
                         /\ message.queries # <<>>
                         /\ lastOp.message.queries[1] = message.queries[1]
                      THEN lastOp.message.id
                      ELSE 0]
    /\ use_order' =
          IF GetResult(lru_cache, message, Now) # None
          THEN Touch(use_order, Key(message), LruKeys(lru_cache'))
          ELSE SelectSeq(use_order, LAMBDA k : k \in LruKeys(lru_cache'))
    /\ UNCHANGED <<clock, proc, tcpVars, udpVars, main, lock>>

\* Time passes; nothing else happens (the cache has no background task).
Tick ==
    /\ clock < Len(ClockPoints)
    /\ clock' = clock + 1
    /\ UNCHANGED <<lru_cache, lastOp, use_order, proc, tcpVars, udpVars, main,
                   lock>>

NextCache ==
    \/ \E message \in PutMessages : put(message)
    \/ \E message \in GetMessages : get(message)
    \/ Tick

\* The program serving, nothing yet received.
Init ==
    /\ InitCache
    /\ InitProc
    /\ InitTcp
    /\ InitUdp
    /\ usize_bytes = 8
    /\ main = Started
    /\ lock = None

SpecCache == Init /\ [][NextCache]_vars

(***************************************************************************)
(* The forwarder under concurrent callers: every task calls process with   *)
(* requests of its own, takes the result, and calls again.                 *)
(***************************************************************************)
\* The requests of task t carry the id t.
ProcRequests(t) ==
    {Message(t, qs, <<>>) :
        qs \in {<<>>, <<Query(1, "A")>>, <<Query(2, "A")>>}}

Call(t) ==
    /\ \E request \in ProcRequests(t) : \E encoded \in BOOLEAN :
          process_start(t, request, encoded)
    /\ UNCHANGED <<clock, lastOp, use_order, tcpVars, udpVars, main, lock>>

SendDone(t) ==
    /\ \E sent \in BOOLEAN : process_sent(t, sent)
    /\ UNCHANGED <<clock, lastOp, use_order, tcpVars, udpVars, main, lock>>

BodyDone(t) ==
    /\ proc[t].pc = "body"
    /\ \E received \in BOOLEAN : \E body \in UpstreamBodies(proc[t].posted) :
          process_body(t, received, body)
    /\ UNCHANGED <<clock, lastOp, use_order, tcpVars, udpVars, main, lock>>

\* The caller takes the result.
Return(t) ==
    /\ proc[t].pc \in {"ok", "err"}
    /\ proc' = [proc EXCEPT ![t] = Idle]
    /\ UNCHANGED <<lru_cache, clock, lastOp, use_order, tcpVars, udpVars,
                   main, lock>>

TickProc ==
    /\ clock < Len(ClockPoints)
    /\ clock' = clock + 1
    /\ UNCHANGED <<lru_cache, proc, lastOp, use_order, tcpVars, udpVars, main,
                   lock>>

NextProc ==
    \/ \E t \in Tasks : Call(t)
    \/ \E t \in Tasks : SendDone(t)
    \/ \E t \in Tasks : BodyDone(t)
    \/ \E t \in Tasks : Return(t)
    \/ TickProc

SpecProc == Init /\ [][NextProc]_vars

(***************************************************************************)
(* The TCP listener: connections are accepted, the clients send their      *)
(* streams in segments, and every connection's task runs its loop.         *)
(***************************************************************************)
\* A frame: the two-byte big-endian length of body, then body.
Frame(body) == to_be_bytes(Len(body), 2) \o body

Request1 == to_vec(Message(1, <<Query(1, "A")>>, <<>>))
Request2 == to_vec(Message(2, <<Query(1, "A")>>, <<>>))

\* What the client of connection c sends, as the segments in which it
\* arrives: one query; two queries; a query and a zero length; a zero
\* length; nothing; a frame cut short; a frame whose body is no message; a
\* query whose length prefix arrives one byte at a time.
ClientStreams(c) ==
    IF c = 1
    THEN {<<Frame(Request1)>>,
          <<Frame(Request1), Frame(Request2)>>,
          <<Frame(Request1) \o <<0, 0>>>>,
          <<<<0, 0>>>>,
          <<>>,
          <<<<0, 6, 0, 1>>>>,
          <<Frame(<<9, 9>>)>>,
          <<<<0>>, <<6>> \o Request1>>}
    ELSE {<<Frame(Request2)>>}

\* The outcomes of the I/O of connection c: it may fail on connection 1.
IoOutcomes(c) == IF c = 1 THEN BOOLEAN ELSE {TRUE}

\* What the upstream answers in this specification: an undecodable body, or
\* a response to the request without an answer or with one.
TcpUpstreamBodies(body) ==
    {<<0, 0>>} \cup
    {to_vec(Message(from_vec(body).id, from_vec(body).queries, as)) :
        as \in {<<>>, <<Record(10)>>}}

\* upstream.rs:67: send() ends for the call of connection c.
Sent(c, sent) ==
    /\ process_sent(c, sent)
    /\ UNCHANGED <<clock, lastOp, use_order, tcpVars, udpVars, main, lock>>

\* upstream.rs:68-72: bytes() ends for the call of connection c.
Received(c, received, body) ==
    /\ process_body(c, received, body)
    /\ UNCHANGED <<clock, lastOp, use_order, tcpVars, udpVars, main, lock>>

InitTcpSpec ==
    /\ InitCache
    /\ InitProc
    /\ InitTcp
    /\ InitUdp
    /\ usize_bytes \in {4, 8}
    /\ main = Started
    /\ lock = None

NextTcp ==
    \/ \E c \in Tasks : \E stream \in ClientStreams(c) : Accept(c, stream)
    \/ AcceptError
    \/ \E c \in Tasks : Deliver(c)
    \/ \E c \in Tasks : ClientClose(c)
    \/ \E c \in Tasks : \E ok \in IoOutcomes(c) : ReadLen(c, ok)
    \/ \E c \in Tasks : \E ok, encoded \in IoOutcomes(c) :
          ReadBody(c, ok, encoded)
    \/ \E c \in Tasks : \E sent \in IoOutcomes(c) : Sent(c, sent)
    \/ \E c \in Tasks :
          /\ proc[c].pc = "body"
          /\ \E received \in IoOutcomes(c) :
                \E body \in TcpUpstreamBodies(proc[c].posted) :
                   Received(c, received, body)
    \/ \E c \in Tasks : \E encoded \in IoOutcomes(c) : Processed(c, encoded)
    \/ \E c \in Tasks : \E ok \in IoOutcomes(c) : WriteLen(c, ok)
    \/ \E c \in Tasks : \E ok \in IoOutcomes(c) : WriteBody(c, ok)
    \/ \E c \in Tasks : \E ok \in IoOutcomes(c) : Flush(c, ok)

SpecTcp == InitTcpSpec /\ [][NextTcp]_vars

(***************************************************************************)
(* The UDP listener: datagrams arrive, each is handed to a task, and the   *)
(* tasks run concurrently.                                                 *)
(***************************************************************************)
ClientAddrs == {"10.0.0.1:5000", "10.0.0.2:5000"}

\* What may arrive for task t: a query with the id t, for a question of its
\* own or for the question 1, or bytes that are no message.
UdpDatagrams(t) ==
    {to_vec(Message(t, <<Query(t, "A")>>, <<>>)),
     to_vec(Message(t, <<Query(1, "A")>>, <<>>)),
     <<0, t, 1, 0, 1, 9>>}

NextUdp ==
    \/ \E t \in Tasks : \E addr \in ClientAddrs :
          \E datagram \in UdpDatagrams(t) : Recv(t, addr, datagram)
    \/ RecvError
    \/ \E t \in Tasks : \E encoded \in IoOutcomes(t) : UdpStart(t, encoded)
    \/ \E t \in Tasks : \E sent \in IoOutcomes(t) : Sent(t, sent)
    \/ \E t \in Tasks :
          /\ proc[t].pc = "body"
          /\ \E received \in IoOutcomes(t) :
                \E body \in TcpUpstreamBodies(proc[t].posted) :
                   Received(t, received, body)
    \/ \E t \in Tasks : \E encoded \in IoOutcomes(t) : UdpProcessed(t, encoded)
    \/ \E t \in Tasks : \E ok \in IoOutcomes(t) : SendTo(t, ok)

SpecUdp == Init /\ [][NextUdp]_vars

(***************************************************************************)
(* The program from its start: the client is constructed, the listeners    *)
(* are bound, and then connection 1 is served over TCP and datagram 2 over *)
(* UDP, with the one forwarder.                                            *)
(***************************************************************************)
MainHosts == IpHosts \cup {"dns.example"}

Failures == {"none", "build", "name", "encode"}

MainBootResponses ==
    {DecodeError,
     Message(0, <<>>, <<>>),
     Message(0, <<>>, <<BootRecord("A", RData("A", "8.8.8.8"))>>),
     Message(0, <<>>, <<BootRecord("CNAME", RData("CNAME", "dns.google")),
                        BootRecord("A", RData("A", "8.8.8.8"))>>)}

InitMain ==
    /\ InitCache
    /\ InitProc
    /\ InitTcp
    /\ InitUdp
    /\ usize_bytes = 8
    /\ main \in {Starting(host) : host \in MainHosts}
    /\ lock = None

NextMain ==
    \/ \E failure \in Failures : NewClient(failure)
    \/ \E ok \in BOOLEAN : BootSent(ok)
    \/ \E ok, build_ok \in BOOLEAN : \E response \in MainBootResponses :
          BootBody(ok, response, build_ok)
    \/ \E ok \in BOOLEAN : BindUdp(ok)
    \/ \E ok \in BOOLEAN : BindTcp(ok)
    \/ Listening /\ Accept(1, <<Frame(Request1)>>)
    \/ Listening /\ Deliver(1)
    \/ Listening /\ ClientClose(1)
    \/ Listening /\ ReadLen(1, TRUE)
    \/ Listening /\ ReadBody(1, TRUE, TRUE)
    \/ Listening /\ Processed(1, TRUE)
    \/ Listening /\ WriteLen(1, TRUE)
    \/ Listening /\ WriteBody(1, TRUE)
    \/ Listening /\ Flush(1, TRUE)
    \/ Listening /\ Recv(2, "10.0.0.2:5000", Request2)
    \/ Listening /\ UdpStart(2, TRUE)
    \/ Listening /\ UdpProcessed(2, TRUE)
    \/ Listening /\ SendTo(2, TRUE)
    \/ Listening /\ \E t \in Tasks : \E sent \in BOOLEAN : Sent(t, sent)
    \/ /\ Listening
       /\ \E t \in Tasks :
             /\ proc[t].pc = "body"
             /\ \E body \in TcpUpstreamBodies(proc[t].posted) :
                   Received(t, TRUE, body)
    \/ Listening /\ TickProc

SpecMain == InitMain /\ [][NextMain]_vars

(***************************************************************************)
(* HttpsClient::new on its own, for any host and any bootstrap response    *)
(* with up to two answers.                                                 *)
(***************************************************************************)
BootResponses ==
    {DecodeError}
        \cup {Message(0, <<>>, <<>>)}
        \cup {Message(0, <<>>, <<r>>) : r \in BootRecords}
        \cup {Message(0, <<>>, <<r1, r2>>) : r1, r2 \in BootRecords}

InitBootstrap ==
    /\ InitCache
    /\ InitProc
    /\ InitTcp
    /\ InitUdp
    /\ usize_bytes = 8
    /\ main \in {Starting(host) : host \in IpHosts \cup NameHosts}
    /\ lock = None

NextBootstrap ==
    \/ \E failure \in Failures : NewClient(failure)
    \/ \E ok \in BOOLEAN : BootSent(ok)
    \/ \E ok, build_ok \in BOOLEAN : \E response \in BootResponses :
          BootBody(ok, response, build_ok)

SpecBootstrap == InitBootstrap /\ [][NextBootstrap]_vars

(***************************************************************************)
(* HttpsClient::process with the mutex of the cache made explicit: the     *)
(* tasks run on several threads, so one task can be inside get or put,     *)
(* holding the lock, while the others run.  proc[t].pc has three more      *)
(* values here: "get" (inside Cache::get, lock held), "put_lock" (inside   *)
(* Cache::put, at lock()), and "put" (inside Cache::put, lock held).       *)
(***************************************************************************)
\* The lock when task t holds it.
Holder(t) == [task |-> t]

\* cache.rs:55, 86: the MutexGuard goes out of scope.
KeepsLock(t) == Holder(t)

unlock(t) == None

\* upstream.rs:59, cache.rs:59: process is called and get takes the lock,
\* which it waits for while another task holds it.
GetLock(t, request) ==
    /\ proc[t].pc = "idle"
    /\ lock = None
    /\ lock' = Holder(t)
    /\ proc' = [proc EXCEPT ![t] =
          [Idle EXCEPT !.pc = "get", !.request = request]]
    /\ UNCHANGED <<lru_cache, clock, tcpVars, udpVars, main, lastOp,
                   use_order>>

\* cache.rs:60-86, upstream.rs:59-67: get runs and returns, the guard is
\* dropped; on a miss the request is encoded and the POST sent.
GetUnlock(t, encoded) ==
    LET request == proc[t].request
        hit == GetResult(lru_cache, request, Now)
    IN  /\ proc[t].pc = "get"
        /\ lock = Holder(t)
        /\ lru_cache' = GetState(lru_cache, request, Now)
        /\ lock' = unlock(t)
        /\ proc' = [proc EXCEPT ![t] =
              IF hit # None
              THEN [@ EXCEPT !.pc = "ok", !.result = hit]
              ELSE IF ~encoded
              THEN [@ EXCEPT !.pc = "err", !.result = map_err("encode"),
                             !.stage = "encode"]
              ELSE [@ EXCEPT !.pc = "send", !.posted = to_vec(request),
                             !.posts = 1]]
        /\ UNCHANGED <<clock, tcpVars, udpVars, main, lastOp, use_order>>

\* upstream.rs:68-70, cache.rs:34-52: bytes() ends and the body is decoded;
\* put returns at once for a message without a query or without an answer,
\* and otherwise goes for the lock.
BodyArrives(t, received, body) ==
    /\ proc[t].pc = "body"
    /\ proc' = [proc EXCEPT ![t] =
          IF ~received
          THEN [@ EXCEPT !.pc = "err", !.result = map_err("body"),
                         !.stage = "body"]
          ELSE IF from_vec(body) = DecodeError
          THEN [@ EXCEPT !.pc = "err", !.result = map_err("decode"),
                         !.stage = "decode"]
          ELSE IF from_vec(body).queries = <<>>
                  \/ from_vec(body).answers = <<>>
          THEN [@ EXCEPT !.pc = "ok", !.result = from_vec(body)]
          ELSE [@ EXCEPT !.pc = "put_lock", !.result = from_vec(body)]]
    /\ UNCHANGED <<lru_cache, clock, tcpVars, udpVars, main, lock, lastOp,
                   use_order>>

\* cache.rs:53: put takes the lock.
PutLock(t) ==
    /\ proc[t].pc = "put_lock"
    /\ lock = None
    /\ lock' = Holder(t)
    /\ proc' = [proc EXCEPT ![t] = [@ EXCEPT !.pc = "put"]]
    /\ UNCHANGED <<lru_cache, clock, tcpVars, udpVars, main, lastOp,
                   use_order>>

\* cache.rs:54-55, upstream.rs:72: the entry is put, the guard dropped, and
\* process returns.
PutUnlock(t) ==
    /\ proc[t].pc = "put"
    /\ lock = Holder(t)
    /\ lru_cache' = process_put(lru_cache, proc[t].result, Now)
    /\ lock' = unlock(t)
    /\ proc' = [proc EXCEPT ![t] = [@ EXCEPT !.pc = "ok"]]
    /\ UNCHANGED <<clock, tcpVars, udpVars, main, lastOp, use_order>>

NextLock ==
    \/ \E t \in Tasks : \E request \in ProcRequests(t) : GetLock(t, request)
    \/ \E t \in Tasks : \E encoded \in BOOLEAN : GetUnlock(t, encoded)
    \/ \E t \in Tasks : \E sent \in BOOLEAN : Sent(t, sent)
    \/ \E t \in Tasks :
          /\ proc[t].pc = "body"
          /\ \E received \in BOOLEAN :
                \E body \in TcpUpstreamBodies(proc[t].posted) :
                   BodyArrives(t, received, body)
    \/ \E t \in Tasks : PutLock(t)
    \/ \E t \in Tasks : PutUnlock(t)
    \/ \E t \in Tasks : Return(t)
    \/ TickProc

SpecLock == Init /\ [][NextLock]_vars

(***************************************************************************)
(* Two tasks that each call process once, for a question that may be the   *)
(* same, while the upstream answers as it likes.                           *)
(***************************************************************************)
\* The request of task t: its own id, one of two questions.
OneCallRequests(t) ==
    {Message(t, <<q>>, <<>>) : q \in {Query(1, "A"), Query(2, "A")}}

\* The one call of task t.
CallOnce(t) ==
    /\ \E request \in OneCallRequests(t) : process_start(t, request, TRUE)
    /\ UNCHANGED <<clock, lastOp, use_order, tcpVars, udpVars, main, lock>>

NextTwoCalls ==
    \/ \E t \in Tasks : CallOnce(t)
    \/ \E t \in Tasks : SendDone(t)
    \/ \E t \in Tasks : BodyDone(t)
    \/ TickProc

SpecTwoCalls == Init /\ [][NextTwoCalls]_vars

(***************************************************************************)
(* Properties of the cache.                                                *)
(***************************************************************************)
FirstQuery(message) == message.queries[1]

\* The values the cache holds for question q (at most one).
CachedValues(cache, q) ==
    {cache[i].value : i \in {j \in 1 .. Len(cache) : cache[j].key.query = q}}

CachedQueries(cache) == {cache[i].key.query : i \in 1 .. Len(cache)}

\* A put that stores: the message has a query and an answer.
Stores(message) == message.queries # <<>> /\ message.answers # <<>>

\* t is below the TTL of every answer of message.
BelowEveryTtl(t, message) ==
    \A i \in 1 .. Len(message.answers) : t < message.answers[i].ttl

\* C1: after put of a message with one query and one answer whose TTL is
\* greater than 0, a get made before the TTL has elapsed, with a message
\* whose first query is the same question (whatever its id), returns a
\* message carrying the stored answers and the id of the fetching message.
C1_CacheRoundTrip ==
    [][\A m \in GetMessages :
          (/\ lastOp.op = "put"
           /\ Len(lastOp.message.queries) = 1
           /\ Len(lastOp.message.answers) = 1
           /\ lastOp.message.answers[1].ttl > 0
           /\ m.queries # <<>>
           /\ FirstQuery(m) = FirstQuery(lastOp.message)
           /\ Now - lastOp.at < lastOp.message.answers[1].ttl
           /\ get(m))
          => /\ lastOp'.result # None
             /\ lastOp'.result.answers = lastOp.message.answers
             /\ lastOp'.result.id = m.id]_vars

\* A get at instant 9 returned the one-answer message stored at instant 0
\* under another id, with the id of the get.
C1_Witness ==
    /\ lastOp.op = "get"
    /\ lastOp.result # None
    /\ lastOp.at = 9
    /\ Len(lastOp.result.answers) = 1
    /\ lastOp.result.answers[1].ttl > 0
    /\ lastOp.result.id = lastOp.message.id
    /\ \E v \in CachedValues(lru_cache, FirstQuery(lastOp.message)) :
          /\ v.instant = 0
          /\ v.message.id # lastOp.message.id
          /\ v.message.answers = lastOp.result.answers

\* C2: an entry stored with TTL 0 is absent on the very next get, which
\* returns None and removes the entry; a get for a question the cache does
\* not hold returns None and leaves it absent, and a question becomes cached
\* only by a put for it; the passing of time alone removes nothing.
C2_TtlExpiry ==
    [][/\ \A m \in GetMessages :
            (/\ lastOp.op = "put"
             /\ Stores(lastOp.message)
             /\ \E i \in 1 .. Len(lastOp.message.answers) :
                   lastOp.message.answers[i].ttl = 0
             /\ m.queries # <<>>
             /\ FirstQuery(m) = FirstQuery(lastOp.message)
             /\ get(m))
            => /\ lastOp'.result = None
               /\ FirstQuery(m) \notin CachedQueries(lru_cache')
       /\ \A m \in GetMessages :
            (/\ m.queries # <<>>
             /\ FirstQuery(m) \notin CachedQueries(lru_cache)
             /\ get(m))
            => /\ lastOp'.result = None
               /\ FirstQuery(m) \notin CachedQueries(lru_cache')
       /\ \A q \in CachedQueries(lru_cache') \ CachedQueries(lru_cache) :
            /\ lastOp'.op = "put"
            /\ Stores(lastOp'.message)
            /\ FirstQuery(lastOp'.message) = q
       /\ clock' # clock => lru_cache' = lru_cache]_vars

\* The get right after a put of a TTL-0 message (same instant) returned None
\* and removed the entry.
C2_Witness ==
    /\ lastOp.op = "get"
    /\ lastOp.result = None
    /\ lastOp.at = 0
    /\ \E d \in lastOp.dropped :
          /\ d.key.query = FirstQuery(lastOp.message)
          /\ d.value.ttl = 0
          /\ d.value.instant = 0
    /\ lru_cache = <<>>

\* C3: the lifetime of an entry is the minimum TTL of the answers of its
\* message, counted from the instant of the put: every entry records that
\* minimum and the instant of its put, and a get of a cached question
\* returns a message exactly when the time elapsed since the put is strictly
\* below every answer's TTL, so no answer is served past its own TTL.
C3_MinTtl ==
    /\ [](\A i \in 1 .. Len(lru_cache) :
            LET v == lru_cache[i].value
            IN  /\ \A j \in 1 .. Len(v.message.answers) :
                      v.ttl <= v.message.answers[j].ttl
                /\ \E j \in 1 .. Len(v.message.answers) :
                      v.ttl = v.message.answers[j].ttl)
    /\ [][/\ \A m \in PutMessages :
               (Stores(m) /\ put(m))
               => \A v \in CachedValues(lru_cache', FirstQuery(m)) :
                      v.instant = Now /\ v.message = m
          /\ \A m \in GetMessages :
               (m.queries # <<>> /\ get(m))
               => \A v \in CachedValues(lru_cache, FirstQuery(m)) :
                     /\ lastOp'.result # None
                           <=> BelowEveryTtl(Now - v.instant, v.message)
                     /\ lastOp'.result # None
                           => /\ lastOp'.result.answers = v.message.answers
                              /\ BelowEveryTtl(Now - v.instant,
                                               lastOp'.result)]_vars

\* A message with answer TTLs {1000, 10} stored at instant 0 was served by a
\* get at instant 9.
C3_Witness ==
    /\ lastOp.op = "get"
    /\ lastOp.at = 9
    /\ lastOp.result # None
    /\ lastOp.result.answers = <<Record(1000), Record(10)>>
    /\ \E v \in CachedValues(lru_cache, FirstQuery(lastOp.message)) :
          v.instant = 0

\* C4: a get of a cached, unexpired question returns a message with the id
\* of that get (so two gets in a row with different ids each get their own
\* id, never the other's or the stored one), and leaves the stored value of
\* that question as it was.
C4_KeyIndependentOfId ==
    [][\A m \in GetMessages :
          (m.queries # <<>> /\ get(m))
          => \A v \in CachedValues(lru_cache, FirstQuery(m)) :
                BelowEveryTtl(Now - v.instant, v.message)
                => /\ lastOp'.result # None
                   /\ lastOp'.result.id = m.id
                   /\ lastOp'.result.queries = v.message.queries
                   /\ lastOp'.result.answers = v.message.answers
                   /\ CachedValues(lru_cache', FirstQuery(m)) = {v}]_vars

\* Two gets in a row for one question, with different ids, both returned a
\* message; the second carries its own id, and the stored message still has
\* the id it was stored with.
C4_Witness ==
    /\ lastOp.op = "get"
    /\ lastOp.result # None
    /\ lastOp.prev_hit # 0
    /\ lastOp.prev_hit # lastOp.message.id
    /\ lastOp.result.id = lastOp.message.id
    /\ \E v \in CachedValues(lru_cache, FirstQuery(lastOp.message)) :
          v.message.id = StoredId

\* C5: put of a message with no queries or no answers leaves the cache
\* exactly as it was; get against an empty cache, or with a message that has
\* no queries, returns None and leaves the cache as it was.
C5_EmptyGuards ==
    [][/\ \A m \in PutMessages :
            ((m.queries = <<>> \/ m.answers = <<>>) /\ put(m))
            => lru_cache' = lru_cache /\ lastOp'.result = None
       /\ \A m \in GetMessages :
            ((lru_cache = <<>> \/ m.queries = <<>>) /\ get(m))
            => lru_cache' = lru_cache /\ lastOp'.result = None]_vars

\* A put without answers, for a question the cache holds, left a full cache
\* with that question still in it.
C5_Witness ==
    /\ lastOp.op = "put"
    /\ lastOp.message.queries # <<>>
    /\ lastOp.message.answers = <<>>
    /\ FirstQuery(lastOp.message) \in CachedQueries(lru_cache)
    /\ Len(lru_cache) = CacheCapacity

\* The cached values of the questions other than q.
OtherValues(cache, q) ==
    [p \in CachedQueries(cache) \ {q} |-> CachedValues(cache, p)]

\* C6: the cache never holds more than its capacity, nor a question twice;
\* a put of a new question into a full cache removes exactly the least
\* recently used question (a use being a put that stores or a get that
\* returns a message) and nothing else; a put of a cached question replaces
\* its message, instant and TTL and removes nothing; a put into a cache that
\* is not full removes nothing.
C6_BoundedLru ==
    /\ [](/\ Len(lru_cache) <= CacheCapacity
          /\ Cardinality(CachedQueries(lru_cache)) = Len(lru_cache))
    /\ [][\A m \in PutMessages :
            (Stores(m) /\ put(m))
            => LET q == FirstQuery(m)
                   lru == use_order[Len(use_order)].query
               IN  /\ \E v \in CachedValues(lru_cache', q) :
                         /\ v.message = m
                         /\ v.instant = Now
                         /\ BelowEveryTtl(v.ttl - 1, m)
                   /\ IF q \in CachedQueries(lru_cache)
                      THEN /\ CachedQueries(lru_cache') = CachedQueries(lru_cache)
                           /\ OtherValues(lru_cache', q) = OtherValues(lru_cache, q)
                      ELSE IF Len(lru_cache) = CacheCapacity
                      THEN /\ CachedQueries(lru_cache')
                                = (CachedQueries(lru_cache) \ {lru}) \cup {q}
                           /\ lru \in CachedQueries(lru_cache)
                           /\ OtherValues(lru_cache', q)
                                = OtherValues(lru_cache, lru)
                      ELSE /\ CachedQueries(lru_cache')
                                = CachedQueries(lru_cache) \cup {q}
                           /\ OtherValues(lru_cache', q)
                                = OtherValues(lru_cache, q)]_vars

\* A put of a new question into a full cache removed one entry, and kept an
\* entry stored before the removed one (a get had used it since).
C6_Witness ==
    /\ lastOp.op = "put"
    /\ Len(lru_cache) = CacheCapacity
    /\ Cardinality(lastOp.dropped) = 1
    /\ \E i \in 1 .. Len(lru_cache) : \E d \in lastOp.dropped :
          lru_cache[i].value.instant < d.value.instant

(***************************************************************************)
(* Properties of the forwarder.                                            *)
(***************************************************************************)
\* The unexpired values the cache holds for the first query of request.
FreshValues(cache, request, now) ==
    IF request.queries = <<>> THEN {}
    ELSE {v \in CachedValues(cache, FirstQuery(request)) :
             BelowEveryTtl(now - v.instant, v.message)}

\* This step is the call of process by task t.
Called(t) == proc[t].pc = "idle" /\ proc'[t].pc # "idle"

\* C7: a call of process that finds an unexpired entry for the request's
\* first query returns that entry's message with the request's id and sends
\* no POST; a call that finds none sends exactly one POST, with the encoded
\* request as its body (or fails before sending), and when the response is
\* decoded it is returned and offered to the cache, which stores it exactly
\* when it has a query and an answer.
C7_ProcessCacheAware ==
    /\ [](\A t \in Tasks :
            /\ proc[t].posts <= 1
            /\ proc[t].pc \in {"send", "body"} => proc[t].posts = 1)
    /\ [][\A t \in Tasks :
            /\ Called(t) =>
                 LET request == proc'[t].request
                     fresh == FreshValues(lru_cache, request, Now)
                 IN  IF fresh # {}
                     THEN /\ proc'[t].pc = "ok"
                          /\ proc'[t].posts = 0
                          /\ \A v \in fresh :
                                proc'[t].result
                                    = [v.message EXCEPT !.id = request.id]
                     ELSE /\ proc'[t].pc \in {"send", "err"}
                          /\ proc'[t].pc = "send"
                                => /\ proc'[t].posts = 1
                                   /\ from_vec(proc'[t].posted) = request
                          /\ proc'[t].pc = "err" => proc'[t].posts = 0
            /\ (proc[t].pc \in {"send", "body"} /\ proc'[t].pc # "idle")
                 => proc'[t].posts = 1
            /\ (proc[t].pc = "body" /\ proc'[t].pc = "ok") =>
                 LET response == proc'[t].result
                 IN  /\ to_vec(response) \in UpstreamBodies(proc[t].posted)
                     /\ IF Stores(response)
                        THEN \E v \in CachedValues(lru_cache',
                                                   FirstQuery(response)) :
                                v.message = response /\ v.instant = Now
                        ELSE lru_cache' = lru_cache]_vars

\* One task got its response from the upstream with one POST and the cache
\* stored it; the other task then got the same answers from the cache, under
\* its own id, with no POST.
C7_Witness ==
    \E t, u \in Tasks :
        /\ proc[t].pc = "ok" /\ proc[t].posts = 1
        /\ proc[u].pc = "ok" /\ proc[u].posts = 0
        /\ proc[u].request.queries = proc[t].request.queries
        /\ proc[u].result.answers = proc[t].result.answers
        /\ proc[u].result.id = proc[u].request.id
        /\ proc[u].result.id # proc[t].result.id
        /\ \E v \in CachedValues(lru_cache, FirstQuery(proc[u].request)) :
              v.message = proc[t].result

\* C8: a call of process that fails, at whatever stage, returns the one
\* error Resolve and no message, and the failing step puts nothing into the
\* cache: every value cached after it was cached before it, and a failure
\* after the lookup leaves the cache as it was.
C8_ForwardingErrors ==
    /\ [](\A t \in Tasks :
            /\ proc[t].pc = "err"
                 => /\ proc[t].result = [err |-> "Resolve"]
                    /\ proc[t].stage \in {"encode", "send", "body", "decode"}
            /\ proc[t].pc = "ok"
                 => proc[t].stage = "none" /\ proc[t].result.id \in Nat)
    /\ [][\A t \in Tasks :
            (proc[t].pc # "err" /\ proc'[t].pc = "err")
            => /\ \A q \in CachedQueries(lru_cache') :
                     CachedValues(lru_cache', q) \subseteq CachedValues(lru_cache, q)
               /\ proc[t].pc \in {"send", "body"} => lru_cache' = lru_cache]_vars

\* Two calls failed at different stages, one of them while decoding, with the
\* same error, and the cache holds nothing.
C8_Witness ==
    \E t, u \in Tasks :
        /\ proc[t].pc = "err" /\ proc[t].stage = "decode"
        /\ proc[u].pc = "err" /\ proc[u].stage = "send"
        /\ proc[t].result = proc[u].result
        /\ lru_cache = <<>>

(***************************************************************************)
(* Properties of the TCP listener.                                         *)
(***************************************************************************)
\* The stream of frames of the encoded responses: for each, its length in
\* two bytes, big-endian, then its bytes.
RECURSIVE FramesOf(_)
FramesOf(responses) ==
    IF responses = <<>> THEN <<>>
    ELSE <<Len(Head(responses)) \div 256, Len(Head(responses)) % 256>>
         \o Head(responses) \o FramesOf(Tail(responses))

\* C9: on a connection where no write or flush has failed, once the
\* responses so far are written and flushed, the bytes written to the client
\* are exactly, for each response in order, its length as a two-byte
\* big-endian prefix followed by its bytes.
C9_TcpResponseFraming ==
    \A c \in Tasks :
        (~conn[c].wfail /\ conn[c].pc = "read_len")
        => conn[c].out = FramesOf(conn[c].served)

\* The connection has read a length, and the bytes it got (the first two that
\* had arrived, or fewer, or none from a closed stream) were all zero.
ZeroPrefixRead(c) ==
    /\ conn[c].pc = "read_len"
    /\ conn'[c].pc # "read_len"
    /\ conn'[c].end # "read_len_error"
    /\ conn[c].inbuf # <<>> \/ conn[c].closed
    /\ \A i \in 1 .. Len(conn[c].inbuf) : i <= 2 => conn[c].inbuf[i] = 0

\* C10: when the length prefix read is 0 (the peer having closed included),
\* the task ends in that step: it reads no body, does not call process,
\* writes nothing, warns of nothing, and leaves the cache, the other
\* connections and the accept loop as they were; a task that has ended does
\* nothing more.
C10_TcpZeroLength ==
    [][\A c \in Tasks :
          /\ ZeroPrefixRead(c)
               => /\ conn'[c].pc = "done"
                  /\ conn'[c].end = "zero_length"
                  /\ Len(conn[c].inbuf) - Len(conn'[c].inbuf) <= 2
                  /\ conn'[c].calls = conn[c].calls
                  /\ conn'[c].out = conn[c].out
                  /\ conn'[c].warns = conn[c].warns
                  /\ proc' = proc
                  /\ lru_cache' = lru_cache
                  /\ accept_warned' = accept_warned
                  /\ \A d \in Tasks \ {c} : conn'[d] = conn[d]
          /\ conn[c].pc = "done"
               => /\ conn'[c].pc = "done"
                  /\ conn'[c].out = conn[c].out
                  /\ conn'[c].calls = conn[c].calls
                  /\ conn'[c].warns = conn[c].warns
                  /\ proc'[c] = proc[c]]_vars

\* A connection that was served one response then read a zero length and
\* ended without a warning, while the other connection awaits the upstream.
C10_Witness ==
    \E c, d \in Tasks :
        /\ conn[c].end = "zero_length"
        /\ conn[c].calls = 1
        /\ Len(conn[c].served) = 1
        /\ conn[c].warns = 0
        /\ conn[c].out # <<>>
        /\ conn[d].pc = "process"
        /\ proc[d].pc = "send"

\* An I/O call of connection c fails in this step: the task is at a read,
\* a write or the flush and the step ends in a warning that is not the one
\* of a request that does not parse.
IoErrorStep(c) ==
    /\ conn[c].pc \in {"read_len", "read_body", "write_len", "write_body",
                       "flush"}
    /\ conn'[c].warns = conn[c].warns + 1
    /\ conn'[c].end # "parse_error"

\* A read, a write or the flush has failed on connection c.
IoFailed(c) ==
    \/ conn[c].wfail
    \/ conn[c].end \in {"read_len_error", "read_body_error"}

\* C11: a failed read of the prefix or of the body, a failed write of the
\* length or of the response, or a failed flush ends the connection's task
\* in that step, and from then on the task reads nothing more from the
\* connection, calls process no more and writes nothing more.
C11_TcpErrorTermination ==
    [][\A c \in Tasks :
          /\ IoErrorStep(c) => conn'[c].pc = "done"
          /\ IoFailed(c)
               => /\ Len(conn'[c].inbuf) >= Len(conn[c].inbuf)
                  /\ conn'[c].calls = conn[c].calls
                  /\ conn'[c].out = conn[c].out]_vars

\* What the task writes for the encoded responses: for each, in order, its
\* length prefix then its bytes.
RECURSIVE WireFrames(_)
WireFrames(responses) ==
    IF responses = <<>> THEN <<>>
    ELSE LengthPrefix(Head(responses)) \o Head(responses)
         \o WireFrames(Tail(responses))

DropStep(t) ==
    /\ udp'[t] # udp[t]
    /\ \/ udp[t].pc = "spawned" /\ from_vec(udp[t].buffer) = DecodeError
       \/ udp[t].pc = "process" /\ proc[t].pc = "err"
       \/ udp[t].pc = "process" /\ udp'[t].end = "encode_error"

\* C13: a task whose datagram does not decode, whose call of process fails
\* or whose response does not encode ends in that step having sent nothing
\* and sends nothing later: only a task with a decoded request and a
\* response from process ever sends.  The step leaves the receive loop, the
\* cache and the other tasks as they were, and the other tasks can still
\* take their next step and send their replies.
C13_UdpSilentDrop ==
    /\ [](\A t \in Tasks :
            /\ udp[t].sent # <<>>
                 => /\ udp[t].request # None
                    /\ udp[t].response # None
                    /\ udp[t].end = "replied"
            /\ udp[t].end \in {"parse_error", "process_error", "encode_error"}
                 => /\ udp[t].pc = "done"
                    /\ udp[t].sent = <<>>
                    /\ udp_loop.pc = "recv_from"
                    /\ \A u \in Tasks \ {t} :
                          /\ udp[u].pc = "spawned" => ENABLED UdpStart(u, TRUE)
                          /\ udp[u].pc = "send_to" => ENABLED SendTo(u, TRUE))
    /\ [][\A t \in Tasks :
            DropStep(t)
              => /\ udp'[t].pc = "done"
                 /\ udp'[t].sent = <<>>
                 /\ udp'[t].warns = udp[t].warns + 1
                 /\ udp_loop' = udp_loop
                 /\ lru_cache' = lru_cache
                 /\ \A u \in Tasks \ {t} :
                       udp'[u] = udp[u] /\ proc'[u] = proc[u]]_vars

\* One task has dropped its request after process failed, and the other,
\* which was awaiting the upstream when that happened or came later, has
\* sent its reply.
C13_Witness ==
    \E t, u \in Tasks :
        /\ udp[t].end = "process_error"
        /\ udp[t].sent = <<>>
        /\ udp[u].end = "replied"
        /\ Len(udp[u].sent) = 1
        /\ t \in udp[u].during
        /\ udp_loop.pc = "recv_from"

\* C14: a task sends at most one datagram, and sends it when it ends with a
\* reply; the datagram goes to the source address of the task's own
\* datagram and carries the encoding of the response process returned to
\* that task, which has the id and the queries of the task's own request.
C14_UdpIsolation ==
    /\ [](\A t \in Tasks :
            /\ Len(udp[t].sent) <= 1
            /\ (udp[t].end = "replied") = (Len(udp[t].sent) = 1)
            /\ \A i \in 1 .. Len(udp[t].sent) :
                  /\ udp[t].sent[i].to = udp[t].addr
                  /\ udp[t].sent[i].bytes = to_vec(udp[t].response)
                  /\ udp[t].response.id = udp[t].request.id
                  /\ udp[t].response.queries = udp[t].request.queries
                  /\ udp[t].request = from_vec(udp[t].buffer))
    /\ [][\A t \in Tasks :
            /\ udp[t].pc = "process" /\ udp'[t].pc = "send_to"
                 => udp'[t].response = proc[t].result
            /\ udp'[t].sent # udp[t].sent
                 => /\ udp[t].pc = "send_to"
                    /\ \A u \in Tasks \ {t} : udp'[u] = udp[u]]_vars

\* Two datagrams with distinct questions from distinct addresses, handled at
\* the same time, each answered with its own id to its own address.
C14_Witness ==
    \E t, u \in Tasks :
        /\ t # u
        /\ udp[t].end = "replied"
        /\ udp[u].end = "replied"
        /\ t \in udp[u].during
        /\ udp[t].addr # udp[u].addr
        /\ udp[t].request.queries # udp[u].request.queries
        /\ from_vec(udp[t].sent[1].bytes).id = t
        /\ from_vec(udp[u].sent[1].bytes).id = u

\* C15: the receive loop is always at recv_from, whatever the tasks are
\* doing, so that a datagram can be received whenever one arrives; receiving
\* a datagram only spawns its task (the task has not run, process is not
\* called, nothing else changes), and a failed receive changes nothing but
\* the warning.
C15_UdpNonBlockingReceive ==
    /\ [](/\ udp_loop.pc = "recv_from"
          /\ \A t \in Tasks :
                udp[t].pc = "unreceived"
                  => \A addr \in ClientAddrs : \A datagram \in UdpDatagrams(t) :
                        ENABLED Recv(t, addr, datagram))
    /\ [][/\ \A t \in Tasks :
               udp[t].pc = "unreceived" /\ udp'[t].pc # "unreceived"
                 => /\ udp'[t].pc = "spawned"
                    /\ udp_loop'.pc = "recv_from"
                    /\ proc' = proc
                    /\ lru_cache' = lru_cache
                    /\ \A u \in Tasks \ {t} : udp'[u] = udp[u]
          /\ udp_loop' # udp_loop
               => /\ udp_loop'.pc = "recv_from"
                  /\ udp_loop'.warned
                  /\ udp' = udp
                  /\ proc' = proc
                  /\ lru_cache' = lru_cache]_vars

\* A datagram was received, after a failed receive, while the task of an
\* earlier datagram was awaiting the upstream, and that task still is.
C15_Witness ==
    \E t, u \in Tasks :
        /\ t # u
        /\ proc[t].pc \in {"send", "body"}
        /\ udp[t].pc = "process"
        /\ udp[u].pc = "spawned"
        /\ udp[u].during = {t}
        /\ udp_loop.warned
        /\ udp_loop.pc = "recv_from"

(***************************************************************************)
(* Properties of the program as a whole.                                   *)
(***************************************************************************)
\* Task t is a connection of the TCP listener (otherwise a datagram of the
\* UDP listener).
OverTcp(t) == conn[t].pc # "unaccepted"

\* The unexpired values the cache holds for request that were stored while
\* serving a request of the other transport (a stored response carries the
\* id of the request it answers, which is the task's number).
FromOtherTransport(t, request) ==
    {v \in FreshValues(lru_cache, request, Now) :
        /\ v.message.id \in Tasks \ {t}
        /\ OverTcp(v.message.id) # OverTcp(t)}

\* C16: a response with answers that process got from the upstream for a
\* request of one listener is stored in the cache, and a call of process
\* for a request of the other listener with the same question, before the
\* TTL has passed, returns that response under the caller's id and sends no
\* POST.
C16_SharedCache ==
    [][\A t \in Tasks :
          /\ (proc[t].pc = "body" /\ proc'[t].pc = "ok"
                /\ Stores(proc'[t].result))
               => \E v \in CachedValues(lru_cache', FirstQuery(proc'[t].result)) :
                     v.message = proc'[t].result
          /\ Called(t) =>
               LET request == proc'[t].request
                   stored == FromOtherTransport(t, request)
               IN  stored # {}
                     => /\ proc'[t].pc = "ok"
                        /\ proc'[t].posts = 0
                        /\ proc'[t].result.answers # <<>>
                        /\ \A v \in stored :
                              proc'[t].result
                                  = [v.message EXCEPT !.id = request.id]]_vars

\* The TCP connection was answered from the upstream, and the datagram with
\* the same question then got that response from the cache, with no POST.
C16_Witness ==
    /\ main.pc = "serving"
    /\ Len(conn[1].served) = 1
    /\ from_vec(conn[1].served[1]).answers # <<>>
    /\ udp[2].pc = "process"
    /\ proc[2].pc = "ok"
    /\ proc[2].posts = 0
    /\ proc[2].result.id = 2
    /\ proc[2].result.answers = from_vec(conn[1].served[1]).answers
    /\ \E i \in 1 .. Len(lru_cache) : lru_cache[i].value.message.id = 1

\* Nothing has been served: no connection accepted, no datagram received,
\* no call of process, an empty cache.
NothingServed ==
    /\ conn = [c \in Tasks |-> NoConn]
    /\ udp = [t \in Tasks |-> NoDatagram]
    /\ udp_loop = UdpLoop
    /\ proc = [t \in Tasks |-> Idle]
    /\ lru_cache = <<>>

\* C17: the listeners serve only in a program whose HttpsClient was built
\* and whose two listeners were bound; a failure of HttpsClient::new, of the
\* UDP bind or of the TCP bind is logged and makes main return FAILURE in
\* that step, with nothing served before and nothing at all after it.
C17_FatalStartup ==
    /\ [](/\ main.pc = "serving"
               => /\ main.built /\ main.udp_bound /\ main.tcp_bound
                  /\ main.exit = "none"
                  /\ main.error = None
          /\ main.pc # "serving" => NothingServed
          /\ main.pc = "exit"
               => main.exit = "FAILURE" /\ main.error # None
          /\ main.error # None => main.pc = "exit"
          /\ main.tcp_bound => main.udp_bound
          /\ main.udp_bound => main.built)
    /\ [][/\ main.pc = "exit" => vars' = vars
          /\ (main.pc = "new" /\ ~main'.built) => main'.pc \in {"boot_send", "exit"}
          /\ (main.pc \in {"boot_send", "boot_body"} /\ main' # main /\ ~main'.built)
               => main'.pc \in {"boot_body", "exit"}
          /\ (main.pc = "udp_bind" /\ ~main'.udp_bound) => main'.pc = "exit"
          /\ (main.pc = "tcp_bind" /\ ~main'.tcp_bound) => main'.pc = "exit"]_vars

\* The client was built and the UDP listener bound, the TCP bind failed, and
\* main has returned FAILURE with nothing served.
C17_Witness ==
    /\ main.pc = "exit"
    /\ main.exit = "FAILURE"
    /\ main.error = LocalError("tcp")
    /\ main.built
    /\ main.udp_bound
    /\ ~main.tcp_bound
    /\ NothingServed

\* C18: HttpsClient::new turns to the bootstrap client once when the host is
\* not a literal address and never when it is one; bootstrap sends at most
\* one POST, exactly one in a program that serves a named host; and once
\* the client is constructed (or construction has failed) nothing, a call of
\* process least of all, changes these counts.
C18_BootstrapOnce ==
    /\ [](/\ main.bootstraps <= 1
          /\ main.boot_posts <= main.bootstraps
          /\ main.pc # "new"
               => main.bootstraps = (IF IsIpAddr(main.host) THEN 0 ELSE 1)
          /\ main.pc \in {"boot_send", "boot_body"}
               => ~IsIpAddr(main.host) /\ main.boot_posts = 1
          /\ (main.built /\ ~IsIpAddr(main.host))
               => main.boot_posts = 1 /\ main.resolved # None
          /\ (main.built /\ IsIpAddr(main.host))
               => main.boot_posts = 0 /\ main.resolved = None)
    /\ [][/\ main.pc \notin {"new", "boot_send", "boot_body"}
               => /\ main'.bootstraps = main.bootstraps
                  /\ main'.boot_posts = main.boot_posts
                  /\ main'.resolved = main.resolved
          /\ main.pc \in {"boot_send", "boot_body"}
               => /\ main'.bootstraps = main.bootstraps
                  /\ main'.boot_posts = main.boot_posts
          /\ (proc' # proc \/ lru_cache' # lru_cache) => main' = main]_vars

\* A program started with a host name has bootstrapped once with one POST
\* and has since answered one request from the upstream and one from the
\* cache.
C18_Witness ==
    /\ ~IsIpAddr(main.host)
    /\ main.pc = "serving"
    /\ main.bootstraps = 1
    /\ main.boot_posts = 1
    /\ Len(conn[1].served) = 1
    /\ proc[2].pc = "ok"
    /\ proc[2].posts = 0

(***************************************************************************)
(* Properties of the bootstrap.                                            *)
(***************************************************************************)
\* bootstrap has decoded a response.
BootDecoded == main.response # None

\* bootstrap failed with the Bootstrap error of this text for the host.
BootFailedWith(text) ==
    /\ main.error = Bootstrap(main.host, text)
    /\ main.resolved = None
    /\ main.pc = "exit"

\* bootstrap returned the address ip with port 0.
BootReturned(ip) ==
    /\ main.resolved = SocketAddr(ip, 0)
    /\ main.error \in {None, Build}

\* C19, as stated: with an empty answer section bootstrap fails with a
\* Bootstrap error for the host; otherwise the type of the first answer
\* record decides: an A or AAAA record with an address returns that address
\* with port 0, and any other type fails with "unknown record type".
C19_BootstrapSelection ==
    BootDecoded =>
        LET answers == main.response.answers
        IN  /\ answers = <<>>
                 => /\ main.error # None
                    /\ main.error.err = "Bootstrap"
                    /\ main.error.host = main.host
                    /\ main.resolved = None
            /\ answers # <<>> =>
                 IF answers[1].record_type \in {"A", "AAAA"}
                 THEN answers[1].data # None
                         => BootReturned(answers[1].data.value)
                 ELSE BootFailedWith("unknown record type")

\* C19, amended: with an empty answer section, or a first answer record
\* that carries no data, bootstrap fails with the Bootstrap error "the
\* response doesn't contain the answer" for the host; otherwise the data of
\* the first answer record alone decides: A and AAAA data return that
\* address with port 0, and any other data fails with "unknown record
\* type", whatever the later records are.
C19_BootstrapSelectionAmended ==
    /\ main.resolved # None => main.resolved.port = 0
    /\ BootDecoded =>
         LET answers == main.response.answers
         IN  IF answers = <<>>
             THEN BootFailedWith("the response doesn't contain the answer")
             ELSE IF answers[1].data = None
             THEN BootFailedWith("the response doesn't contain the answer")
             ELSE IF answers[1].data.kind \in {"A", "AAAA"}
             THEN BootReturned(answers[1].data.value)
             ELSE BootFailedWith("unknown record type")

\* A response whose first answer is a CNAME and whose second is an A record:
\* bootstrap has failed with "unknown record type".
C19_Witness ==
    /\ BootDecoded
    /\ Len(main.response.answers) = 2
    /\ main.response.answers[1] = BootRecord("CNAME", RData("CNAME", "dns.google"))
    /\ main.response.answers[2] = BootRecord("A", RData("A", "8.8.8.8"))
    /\ BootFailedWith("unknown record type")

(***************************************************************************)
(* Properties of the lock of the cache.                                    *)
(***************************************************************************)
\* Task t is suspended at an await: of the upstream's send or body inside
\* process, or of a socket read, write or flush in its listener task.
AwaitingIo(t) ==
    \/ proc[t].pc \in {"send", "body"}
    \/ conn[t].pc \in {"read_len", "read_body", "write_len", "write_body",
                       "flush"}
    \/ udp[t].pc = "send_to"

\* C20: the task that holds the lock of the cache is inside get or inside
\* put, never at an await, and can release the lock by its own next step; a
\* task takes the lock only on entering get or put proper and has released
\* it when that get or put is over, so no task that awaits I/O, or is
\* outside a call of get or put, holds it.
C20_LockNeverSpansIo ==
    /\ [](/\ lock # None
               => /\ lock \in {Holder(t) : t \in Tasks}
                  /\ proc[lock.task].pc \in {"get", "put"}
                  /\ ~AwaitingIo(lock.task)
                  /\ proc[lock.task].pc = "get"
                       => ENABLED GetUnlock(lock.task, TRUE)
                  /\ proc[lock.task].pc = "put"
                       => ENABLED PutUnlock(lock.task)
          /\ \A t \in Tasks :
                /\ AwaitingIo(t) => lock # Holder(t)
                /\ proc[t].pc \in {"get", "put"} => lock = Holder(t))
    /\ [][\A t \in Tasks :
            /\ (lock # Holder(t) /\ lock' = Holder(t))
                 => /\ lock = None
                    /\ proc[t].pc \in {"idle", "put_lock"}
                    /\ proc'[t].pc \in {"get", "put"}
            /\ lock = Holder(t)
                 => /\ lock' \in {None, Holder(t)}
                    /\ proc'[t] # proc[t] => lock' = None
            /\ lru_cache' # lru_cache
                 => \E u \in Tasks : lock = Holder(u)]_vars

\* One task is awaiting the upstream's response while the other holds the
\* lock inside put, the first having taken and released the lock in get.
C20_Witness ==
    \E t, u \in Tasks :
        /\ t # u
        /\ proc[t].pc = "body"
        /\ proc[u].pc = "put"
        /\ lock = Holder(u)

(***************************************************************************)
(* Properties of concurrent calls of the forwarder.                        *)
(***************************************************************************)
\* The other tasks whose call has a POST in flight for the first query of
\* request.
InFlightFor(t, request) ==
    {u \in Tasks \ {t} :
        /\ proc[u].pc \in {"send", "body"}
        /\ proc[u].posts = 1
        /\ FirstQuery(proc[u].request) = FirstQuery(request)}

\* The positions of the entries of cache for the question q.
EntriesFor(cache, q) == {i \in 1 .. Len(cache) : cache[i].key.query = q}

\* C21: calls in flight are not coalesced.  Every call awaiting the upstream
\* has sent a POST of its own with its own request; a call that misses
\* the cache sends its POST also when another task's POST for the same
\* question is in flight, so that two POSTs for one fingerprint are in
\* flight; and a response stored by put replaces whatever the cache held for
\* its question, so that the cache holds exactly one entry for the question,
\* the message of the later put.
C21_NoCoalescing ==
    /\ [](\A t \in Tasks :
            proc[t].pc \in {"send", "body"}
                => /\ proc[t].posts = 1
                   /\ from_vec(proc[t].posted) = proc[t].request)
    /\ [][\A t \in Tasks :
            /\ (/\ Called(t)
                /\ GetResult(lru_cache, proc'[t].request, Now) = None
                /\ InFlightFor(t, proc'[t].request) # {})
                 => /\ proc'[t].pc = "send"
                    /\ proc'[t].posts = 1
                    /\ from_vec(proc'[t].posted) = proc'[t].request
                    /\ \A u \in InFlightFor(t, proc'[t].request) :
                          /\ proc'[u] = proc[u]
                          /\ proc'[u].posted # proc'[t].posted
            /\ (/\ proc[t].pc = "body" /\ proc'[t].pc = "ok"
                /\ Stores(proc'[t].result))
                 => LET q == FirstQuery(proc'[t].result)
                    IN  /\ Cardinality(EntriesFor(lru_cache', q)) = 1
                        /\ \A i \in EntriesFor(lru_cache', q) :
                              /\ lru_cache'[i].value.message = proc'[t].result
                              /\ lru_cache'[i].value.instant = Now]_vars

\* Both tasks called process once for the same question, both missed and
\* both sent a POST; both got a response to their question with an answer
\* that lives ten seconds, and both put it, at the instant 0.  Had one call
\* ended before the other began, the other would have found the entry.  The
\* cache holds one entry, the response of one task and not of the other.
C21_Witness ==
    \E t, u \in Tasks :
        /\ t # u
        /\ clock = 1
        /\ proc[t].pc = "ok" /\ proc[t].posts = 1
        /\ proc[u].pc = "ok" /\ proc[u].posts = 1
        /\ FirstQuery(proc[t].request) = FirstQuery(proc[u].request)
        /\ proc[t].result.queries = proc[t].request.queries
        /\ proc[u].result.queries = proc[u].request.queries
        /\ proc[t].result.answers = <<Record(10)>>
        /\ proc[u].result.answers = <<Record(10)>>
        /\ proc[t].result # proc[u].result
        /\ Len(lru_cache) = 1
        /\ lru_cache[1].key.query = FirstQuery(proc[t].request)
        /\ lru_cache[1].value.message = proc[u].result

(***************************************************************************)
(* Properties of the framing of TCP requests.                              *)
(***************************************************************************)
\* The concatenation of segments.
RECURSIVE Concat(_)
Concat(segments) ==
    IF segments = <<>> THEN <<>>
    ELSE Head(segments) \o Concat(Tail(segments))

\* The bytes of the client's stream that the task of connection c has not
\* read: those that have arrived and those still to arrive.
Unread(c) == conn[c].inbuf \o Concat(conn[c].to_send)

\* This step is the end of the read of a length prefix by the task of c.
PrefixRead(c) ==
    /\ conn[c].pc = "read_len"
    /\ conn'[c].pc = "read_body" \/ conn'[c].end = "zero_length"

\* C22: the framing of requests does not depend on how the client's stream
\* is cut into segments.  When the read of a length prefix ends and the
\* client's stream holds the two bytes of a prefix, in however many
\* segments, the task has taken exactly these two bytes as the length, the
\* rest of the stream stays unread, and the task ends for a zero length only
\* when the two bytes are zero.
C22_TcpFramingSegmentation ==
    [][\A c \in Tasks :
          (PrefixRead(c) /\ Len(Unread(c)) >= 2) =>
             LET prefix == Take(Unread(c), 2)
             IN  /\ conn'[c].length = from_be_bytes(prefix)
                 /\ Unread(c)' = Drop(Unread(c), 2)
                 /\ conn'[c].end = "zero_length" <=> prefix = <<0, 0>>]_vars

(***************************************************************************)
(* Properties of the keys of the cache.                                    *)
(***************************************************************************)
\* C23: every entry of the cache is stored under the first query of the
\* message it holds.  The key is taken from the response that is stored, not
\* from the request that was forwarded: a response to another question is
\* stored under its own question and leaves the entries of the request's
\* question alone.  Hence a message returned by get, for any request, and by
\* a call of process that hits the cache, has the first query of the request
\* it was looked up for.
C23_KeyMatchesMessage ==
    /\ [](/\ \A i \in 1 .. Len(lru_cache) :
               /\ lru_cache[i].value.message.queries # <<>>
               /\ lru_cache[i].key
                    = [query |-> FirstQuery(lru_cache[i].value.message)]
          /\ \A request \in GetMessages :
               GetResult(lru_cache, request, Now) # None
                 => FirstQuery(GetResult(lru_cache, request, Now))
                        = FirstQuery(request))
    /\ [][\A t \in Tasks :
            /\ (Called(t) /\ proc'[t].pc = "ok")
                 => /\ proc'[t].posts = 0
                    /\ FirstQuery(proc'[t].result)
                          = FirstQuery(proc'[t].request)
            /\ (/\ proc[t].pc = "body" /\ proc'[t].pc = "ok"
                /\ Stores(proc'[t].result))
                 => LET response == proc'[t].result
                        request == proc[t].request
                    IN  /\ \E v \in CachedValues(lru_cache',
                                                  FirstQuery(response)) :
                              v.message = response
                        /\ (/\ request.queries # <<>>
                            /\ FirstQuery(request) # FirstQuery(response))
                             => CachedValues(lru_cache', FirstQuery(request))
                                  = CachedValues(lru_cache,
                                                 FirstQuery(request))]_vars

\* A task asked one question and the upstream answered another; the response
\* is cached under its own question and nothing is cached under the question
\* asked.  The other task then asked the question of the response and got
\* it from the cache, under its own id, with no POST.
C23_Witness ==
    \E t, u \in Tasks :
        /\ proc[t].pc = "ok" /\ proc[t].posts = 1
        /\ Stores(proc[t].result)
        /\ proc[t].request.queries # <<>>
        /\ FirstQuery(proc[t].result) # FirstQuery(proc[t].request)
        /\ CachedValues(lru_cache, FirstQuery(proc[t].request)) = {}
        /\ \E v \in CachedValues(lru_cache, FirstQuery(proc[t].result)) :
              v.message = proc[t].result
        /\ proc[u].pc = "ok" /\ proc[u].posts = 0
        /\ FirstQuery(proc[u].request) = FirstQuery(proc[t].result)
        /\ proc[u].result = set_id(proc[t].result, proc[u].request.id)
        /\ proc[u].result # proc[t].result

====
